---- MODULE Spec2Model ----
(***************************************************************************)
(* Model of the Simplicity toolchain orchestration layer of                *)
(* simplicity-mcp: the Process Gateway (SimplicityTools), the temporary    *)
(* file protocol of compileSource, the faucet retry loop, the             *)
(* contract_deploy workflow, checkToolsInstallation and autoInstallTools,  *)
(* the call-tool request handler with contract_spend, and validateSyntax   *)
(* with the feature catalog.  Each awaited external call (subprocess,      *)
(* filesystem operation, HTTP request) is one step of an invocation;       *)
(* invocations interleave at those steps, as JavaScript tasks do.          *)
(***************************************************************************)
EXTENDS Integers, Sequences, FiniteSets, TLC

VARIABLES
    avail,   \* which binaries `which <path>` resolves right now
    disk,    \* content of each temporary file name, or Absent
    clock,   \* Date.now()
    pc,      \* position of each invocation
    op,      \* the operation the caller invoked
    meth,    \* the gateway method whose body is executing
    args,    \* the invocation's arguments
    loc,     \* the invocation's local variables
    calls,   \* external calls issued by the invocation, in order
    raised,  \* failure messages external calls produced in the invocation
    ret      \* what the invocation returned to its caller

vars == <<avail, disk, clock, pc, op, meth, args, loc, calls, raised, ret>>

(***************************************************************************)
(* Bounds                                                                  *)
(***************************************************************************)
MaxClock == 1

\* lines of a source text given to validateSyntax
MaxLines == 2

Procs == {1, 2}

(***************************************************************************)
(* Values                                                                  *)
(***************************************************************************)
None == [none |-> TRUE]

Absent == "<absent>"

HasField(r, f) == f \in DOMAIN r

\* JavaScript truthiness of an optional string field
Truthy(r, f) == HasField(r, f) /\ r[f] # ""

Binaries == {"simcPath", "halSimplicityPath", "halSignerPath"}

HalMethods == {"getProgramInfo", "decodeProgram"}

SignerMethods == {"createPSET", "updatePSETInput", "finalizePSET", "extractTransaction"}

CompileMethods == {"compileFile", "compileSource"}

GatewayMethods == CompileMethods \cup HalMethods \cup SignerMethods

(***************************************************************************)
(* The filesystem: the caller's source files are fixed, the temporary      *)
(* files of compileSource come and go.                                     *)
(***************************************************************************)
Sources == {"good", "warn", "bad"}

UserFiles == ("a.simf" :> "good") @@ ("w.simf" :> "warn") @@ ("b.simf" :> "bad") @@ ("e.simf" :> "blank")

UserPaths == DOMAIN UserFiles \cup {"missing.simf"}

TmpName(t) == "/tmp/simplicity-" \o ToString(t) \o ".simf"

TmpNames == {TmpName(t) : t \in 0..MaxClock}

Exists(d, path) ==
    IF path \in DOMAIN UserFiles THEN TRUE
    ELSE path \in DOMAIN d /\ d[path] # Absent

ReadFile(d, path) ==
    IF path \in DOMAIN UserFiles THEN UserFiles[path] ELSE d[path]

(***************************************************************************)
(* The external binaries, as far as the gateway observes them              *)
(***************************************************************************)
SimcAccepts(content) == content \in {"good", "warn", "blank"}

SimcStdout(content) ==
    CASE content = "good" -> "P1\n"
      [] content = "warn" -> "  P2 \n"
      [] OTHER -> "\n"

SimcStderr(content) == IF content = "warn" THEN "warning: unused\n" ELSE ""

Trim(s) ==
    CASE s = "P1\n" -> "P1"
      [] s = "  P2 \n" -> "P2"
      [] s = "\n" -> ""
      [] s = " tex1qabc" -> "tex1qabc"
      [] s = " h1" -> "h1"
      [] s = " c1" -> "c1"
      [] s = " " -> ""
      [] s = "pset1\n" -> "pset1"
      [] s = "tx1\n" -> "tx1"
      [] s = "decoded\n" -> "decoded"
      [] OTHER -> s

\* stderr.split('\n').filter(Boolean)
SplitLines(s) ==
    CASE s = "" -> <<"">>
      [] s = "warning: unused\n" -> <<"warning: unused", "">>
      [] OTHER -> <<s>>

FilterBoolean(seq) == SelectSeq(seq, LAMBDA x : x # "")

CommandFailed(cmd, why) == "Command failed: " \o cmd \o "\n" \o why

(***************************************************************************)
(* Binary routing: the path each method probes and the path it executes    *)
(***************************************************************************)
ProbeBinary(m) ==
    CASE m \in CompileMethods -> "simcPath"
      [] m \in HalMethods -> "halSimplicityPath"
      [] m \in SignerMethods -> "halSignerPath"

ExecBinaryWrong(m) == IF m \in SignerMethods \cup HalMethods THEN "halSimplicityPath" ELSE "simcPath"

ExecBinary(m) ==
    CASE m = "compileFile" -> "simcPath"
      [] m \in HalMethods -> "halSimplicityPath"
      [] m \in SignerMethods -> "halSignerPath"

CommandOf(m) ==
    CASE m = "compileFile" -> "simc"
      [] m \in HalMethods -> "hal-simplicity simplicity info"
      [] m = "createPSET" -> "hal-simplicity-signer simplicity pset create"
      [] m = "updatePSETInput" -> "hal-simplicity-signer simplicity pset update-input"
      [] m = "finalizePSET" -> "hal-simplicity-signer simplicity pset finalize"
      [] m = "extractTransaction" -> "hal-simplicity-signer simplicity pset extract"

Guidance(m) ==
    CASE m \in CompileMethods ->
           "simc not found. Please install SimplicityHL compiler from https://github.com/BlockstreamResearch/SimplicityHL"
      [] m \in HalMethods ->
           "hal-simplicity not found. Please install nums-key branch from https://github.com/apoelstra/hal-simplicity"
      [] m = "createPSET" ->
           "hal-simplicity-signer not found. Please install pset-signer branch from https://github.com/apoelstra/hal-simplicity"
      [] OTHER -> "hal-simplicity-signer not found. Please install pset-signer branch"

(***************************************************************************)
(* Result objects.  An optional field that is not set is not in the        *)
(* record's domain.                                                        *)
(***************************************************************************)
Fail(msg) == [success |-> FALSE, error |-> msg]

EmptyObject == [f \in {} |-> ""]

SetField(r, f, v) == [g \in DOMAIN r \cup {f} |-> IF g = f THEN v ELSE r[g]]

\* the early return of a method whose probe said "not available"
ProbeFailure(m) ==
    IF m = "getProgramInfo" THEN [error |-> Guidance(m)] ELSE Fail(Guidance(m))

ExecFailureThrows(m, msg) == [threw |-> msg]

ExecFailureNoError(m, msg) == [success |-> FALSE]

\* a catch block that answers with the installation guidance
ExecFailureGuidance(m, msg) == ProbeFailure(m)

\* the catch block of a method's exec
ExecFailure(m, msg) ==
    IF m = "getProgramInfo" THEN [error |-> msg] ELSE Fail(msg)

\* line.includes(key + ':') on a line given as its split(':') segments
IncludesKey(line, key) ==
    \E i \in 1..(Len(line) - 1) : line[i] \in {key, "  " \o key}

\* a parser that reports a line it does not know
ParseLineStrict(info, line) ==
    IF IncludesKey(line, "address") THEN SetField(info, "address", Trim(line[2]))
    ELSE IF IncludesKey(line, "program_hash") THEN SetField(info, "program_hash", Trim(line[2]))
    ELSE SetField(info, "error", "unexpected line")

ParseLine(info, line) ==
    IF IncludesKey(line, "address") THEN SetField(info, "address", Trim(line[2]))
    ELSE IF IncludesKey(line, "program_hash") THEN SetField(info, "program_hash", Trim(line[2]))
    ELSE info

RECURSIVE ParseLines(_, _)
ParseLines(info, lines) ==
    IF lines = <<>> THEN info
    ELSE ParseLines(ParseLine(info, Head(lines)), Tail(lines))

\* the result a method builds from the output of a command that exited 0
ExecSuccess(m, stdout, stderr) ==
    CASE m = "compileFile" ->
           [success |-> TRUE, program |-> Trim(stdout),
            warnings |-> IF stderr # "" THEN FilterBoolean(SplitLines(stderr)) ELSE <<>>]
      [] m = "getProgramInfo" -> ParseLines(EmptyObject, stdout)
      [] m = "decodeProgram" -> [success |-> TRUE, decoded |-> Trim(stdout)]
      [] m = "extractTransaction" -> [success |-> TRUE, transaction |-> Trim(stdout)]
      [] OTHER -> [success |-> TRUE, pset |-> Trim(stdout)]

InfoOutputs ==
    { << <<"address", " tex1qabc">>, <<"program_hash", " h1">> >>,
      << <<"cmr", " c1">> >>,
      << <<"  address", " ">> >>,
      << <<"cmr", " c1">>, <<"program_hash", " h1">>, <<"">> >>,
      << <<"">> >> }

Stdouts(m) ==
    CASE m = "getProgramInfo" -> InfoOutputs
      [] m = "decodeProgram" -> {"decoded\n"}
      [] m = "extractTransaction" -> {"tx1\n"}
      [] OTHER -> {"pset1\n"}

\* what running the method's command can produce, given the binary's
\* availability and the filesystem at that moment
ExecOutcomes(m, d, path, available) ==
    IF ~available
    THEN {[ok |-> FALSE, msg |-> CommandFailed(CommandOf(m), "not found")]}
    ELSE IF m = "compileFile"
    THEN IF ~Exists(d, path)
         THEN {[ok |-> FALSE, msg |-> CommandFailed(CommandOf(m), "No such file")]}
         ELSE IF SimcAccepts(ReadFile(d, path))
         THEN {[ok |-> TRUE, stdout |-> SimcStdout(ReadFile(d, path)),
                stderr |-> SimcStderr(ReadFile(d, path))]}
         ELSE {[ok |-> FALSE, msg |-> CommandFailed(CommandOf(m), "exit 1")]}
    ELSE {[ok |-> TRUE, stdout |-> s, stderr |-> ""] : s \in Stdouts(m)}
         \cup {[ok |-> FALSE, msg |-> CommandFailed(CommandOf(m), "exit 1")]}

(***************************************************************************)
(* Invocations                                                             *)
(***************************************************************************)
\* the default of requestFundsWithRetry's maxRetries parameter
MaxRetries == 3

InitArgs ==
    [path |-> "", source |-> "", auto_fund |-> FALSE, tool |-> "", pattern |-> "",
     maxRetries |-> MaxRetries]

InitLoc ==
    [path |-> "", tmpFile |-> "", created |-> FALSE, cres |-> None, err |-> "",
     program |-> "", info |-> None, response |-> None, attempt |-> 0, lastError |-> "",
     seen |-> <<>>, check |-> None, installedTools |-> <<>>, errors |-> <<>>, hungAt |-> "",
     ran |-> "", existed |-> "", content |-> Absent, example |-> None,
     stdout |-> None, validation |-> None]

ProcInit ==
    /\ pc = [p \in Procs |-> "idle"]
    /\ op = [p \in Procs |-> ""]
    /\ meth = [p \in Procs |-> ""]
    /\ args = [p \in Procs |-> InitArgs]
    /\ loc = [p \in Procs |-> InitLoc]
    /\ calls = [p \in Procs |-> <<>>]
    /\ raised = [p \in Procs |-> {}]
    /\ ret = [p \in Procs |-> None]

EnvInit ==
    /\ avail \in [Binaries -> BOOLEAN]
    /\ disk = [n \in TmpNames |-> Absent]
    /\ clock = 0

\* a binary is installed or removed behind the server's back
EnvChange(b) ==
    /\ avail' = [avail EXCEPT ![b] = ~@]
    /\ UNCHANGED <<disk, clock, pc, op, meth, args, loc, calls, raised, ret>>

\* a millisecond passes
Tick ==
    /\ clock < MaxClock
    /\ clock' = clock + 1
    /\ UNCHANGED <<avail, disk, pc, op, meth, args, loc, calls, raised, ret>>

Begin(p, o, m, a, at) ==
    /\ pc[p] = "idle"
    /\ pc' = [pc EXCEPT ![p] = at]
    /\ op' = [op EXCEPT ![p] = o]
    /\ meth' = [meth EXCEPT ![p] = m]
    /\ args' = [args EXCEPT ![p] = a]
    /\ loc' = [loc EXCEPT ![p] = [InitLoc EXCEPT !.path = a.path]]
    /\ calls' = [calls EXCEPT ![p] = <<>>]
    /\ raised' = [raised EXCEPT ![p] = {}]
    /\ ret' = [ret EXCEPT ![p] = None]
    /\ UNCHANGED <<avail, disk, clock>>

StartCompileFile(p) ==
    \E path \in UserPaths :
        Begin(p, "compileFile", "compileFile", [InitArgs EXCEPT !.path = path], "cf_exists")

StartCompileSource(p) ==
    \E src \in Sources :
        Begin(p, "compileSource", "compileSource", [InitArgs EXCEPT !.source = src], "probe")

StartGateway(p) ==
    \E m \in HalMethods \cup SignerMethods :
        Begin(p, m, m, InitArgs, "probe")

\* the caller takes the result; the invocation slot is free again
Finish(p) ==
    /\ pc[p] = "done"
    /\ pc' = [pc EXCEPT ![p] = "idle"]
    /\ UNCHANGED <<avail, disk, clock, op, meth, args, loc, calls, raised, ret>>

(***************************************************************************)
(* contract_deploy: what the handler does with each step's result          *)
(***************************************************************************)
\* JSON.stringify leaves out a field whose value is undefined
Pick(r, f) == [g \in {f} \cap DOMAIN r |-> r[g]]

DeployCompileFailedNever(cres) == FALSE

\* if (!compileResult.success)
DeployCompileFailed(cres) == ~cres.success

DeployCompileError(cres) ==
    [success |-> FALSE, step |-> "compile"] @@ Pick(cres, "error")

DeployProgramDropped(cres) == ""

\* compileResult.program || ''
DeployProgram(cres) == IF Truthy(cres, "program") THEN cres.program ELSE ""

\* if (addressInfo.error)
DeployInfoFailed(info) == Truthy(info, "error")

DeployInfoError(program, info) ==
    [success |-> FALSE, step |-> "get_address", program |-> program, error |-> info.error]

DeployResponse(contract_file, program, info) ==
    [success |-> TRUE, contract_file |-> contract_file, program |-> program]
        @@ Pick(info, "address") @@ Pick(info, "program_hash") @@ Pick(info, "witness_structure")

\* funding asked for whenever auto_fund is set
DeployShouldFundAlways(auto_fund, info) == auto_fund

\* if (auto_fund && addressInfo.address)
DeployShouldFund(auto_fund, info) == auto_fund /\ Truthy(info, "address")

DeployWithFundingUnwinds(response, fundResult) ==
    [SetField(response, "funding", fundResult) EXCEPT !.success = fundResult.success]

\* response.funding = fundResult
DeployWithFunding(response, fundResult) == SetField(response, "funding", fundResult)

\* contract_deploy resumes with the result r of the step it awaited; l is
\* the invocation's locals as that step left them
DeployAfter(p, r, l) ==
    IF meth[p] = "compileFile"
    THEN IF DeployCompileFailed(r)
         THEN /\ pc' = [pc EXCEPT ![p] = "done"]
              /\ ret' = [ret EXCEPT ![p] = DeployCompileError(r)]
              /\ loc' = [loc EXCEPT ![p] = [l EXCEPT !.cres = r]]
              /\ UNCHANGED meth
         ELSE /\ pc' = [pc EXCEPT ![p] = "probe"]
              /\ meth' = [meth EXCEPT ![p] = "getProgramInfo"]
              /\ loc' = [loc EXCEPT ![p] = [l EXCEPT !.cres = r, !.program = DeployProgram(r)]]
              /\ UNCHANGED ret
    ELSE IF DeployInfoFailed(r)
         THEN /\ pc' = [pc EXCEPT ![p] = "done"]
              /\ ret' = [ret EXCEPT ![p] = DeployInfoError(l.program, r)]
              /\ loc' = [loc EXCEPT ![p] = [l EXCEPT !.info = r]]
              /\ UNCHANGED meth
         ELSE LET response == DeployResponse(args[p].path, l.program, r) IN
              IF DeployShouldFund(args[p].auto_fund, r)
              THEN /\ pc' = [pc EXCEPT ![p] = "fund"]
                   /\ meth' = [meth EXCEPT ![p] = "requestFundsWithRetry"]
                   /\ loc' = [loc EXCEPT ![p] = [l EXCEPT !.info = r, !.response = response,
                                         !.attempt = 1]]
                   /\ UNCHANGED ret
              ELSE /\ pc' = [pc EXCEPT ![p] = "done"]
                   /\ ret' = [ret EXCEPT ![p] = response]
                   /\ loc' = [loc EXCEPT ![p] = [l EXCEPT !.info = r, !.response = response]]
                   /\ UNCHANGED meth

\* The method that is executing returns r: to the caller when the caller
\* invoked it, else to the operation that called it.
Return(p, r, l) ==
    IF op[p] = meth[p]
    THEN /\ pc' = [pc EXCEPT ![p] = "done"]
         /\ ret' = [ret EXCEPT ![p] = r]
         /\ loc' = [loc EXCEPT ![p] = l]
         /\ UNCHANGED meth
    ELSE IF op[p] = "compileSource"
    THEN /\ pc' = [pc EXCEPT ![p] = "cs_unlink"]
         /\ loc' = [loc EXCEPT ![p] = [l EXCEPT !.cres = r]]
         /\ meth' = [meth EXCEPT ![p] = "compileSource"]
         /\ UNCHANGED ret
    ELSE DeployAfter(p, r, l)

(***************************************************************************)
(* compileFile, and the probe and exec steps every gateway method shares   *)
(***************************************************************************)
FileCheckSkipped(path, exists) == None

\* compileFile's existsSync test: None lets the method go on
FileCheck(path, exists) ==
    IF exists THEN None ELSE Fail("File not found: " \o path)

ProbeGateIgnored(m, ok) == None

\* the test of the probe's answer: None lets the method go on
ProbeGate(m, ok) ==
    IF ok THEN None ELSE ProbeFailure(m)

CfExists(p) ==
    /\ pc[p] = "cf_exists"
    /\ LET r == FileCheck(loc[p].path, Exists(disk, loc[p].path)) IN
         IF r = None
         THEN /\ pc' = [pc EXCEPT ![p] = "probe"]
              /\ UNCHANGED <<loc, meth, ret>>
         ELSE Return(p, r, loc[p])
    /\ UNCHANGED <<avail, disk, clock, op, args, calls, raised>>

\* an availability test that remembers the first answer it got for a binary
IsAvailableCached(av, b, earlier) ==
    LET known == {<<q, i>> \in Procs \X (1..4) :
                     /\ i \in DOMAIN earlier[q]
                     /\ earlier[q][i].kind = "probe" /\ earlier[q][i].bin = b}
    IN IF known = {} THEN av[b]
       ELSE LET c == CHOOSE c \in known : TRUE IN earlier[c[1]][c[2]].ok

\* isSimcAvailable, isHalSimplicityAvailable, isHalSignerAvailable: the
\* answer is the exit status of `which <path>` at this moment, whatever
\* the earlier probes answered
IsAvailable(av, b, earlier) == av[b]

\* await this.isXAvailable(): `which <path>` is spawned and answers
Probe(p) ==
    /\ pc[p] = "probe"
    /\ LET m == meth[p]
           b == ProbeBinary(m)
           ok == IsAvailable(avail, b, calls)
           r == ProbeGate(m, ok)
       IN /\ calls' = [calls EXCEPT ![p] =
                          Append(@, [kind |-> "probe", bin |-> b, by |-> m, ok |-> ok])]
          /\ IF r = None
             THEN /\ pc' = [pc EXCEPT ![p] = IF m = "compileSource" THEN "cs_write" ELSE "exec"]
                  /\ UNCHANGED <<loc, meth, ret>>
             ELSE Return(p, r, loc[p])
    /\ UNCHANGED <<avail, disk, clock, op, args, raised>>

\* await execAsync(<command>): the command is spawned and exits
Exec(p) ==
    /\ pc[p] = "exec"
    /\ LET m == meth[p]
           b == ExecBinary(m)
       IN \E o \in ExecOutcomes(m, disk, loc[p].path, avail[b]) :
            /\ calls' = [calls EXCEPT ![p] =
                            Append(@, [kind |-> "exec", bin |-> b, by |-> m, ok |-> o.ok])]
            /\ raised' = [raised EXCEPT ![p] = IF o.ok THEN @ ELSE @ \cup {o.msg}]
            /\ Return(p, IF o.ok THEN ExecSuccess(m, o.stdout, o.stderr)
                                 ELSE ExecFailure(m, o.msg),
                      [loc[p] EXCEPT !.stdout = IF o.ok THEN o.stdout ELSE None])
    /\ UNCHANGED <<avail, disk, clock, op, args>>

(***************************************************************************)
(* compileSource: write the source to a temporary file, compile the file,  *)
(* delete the file                                                         *)
(***************************************************************************)
\* `/tmp/simplicity-${Date.now()}.simf`
TmpFileOf(now) == TmpName(now)

WriteOutcomes == {"ok", "fail_nocreate", "fail_partial"}

WriteError(o) ==
    IF o = "fail_partial" THEN "ENOSPC: no space left on device, write"
    ELSE "EMFILE: too many open files, open"

UnlinkOutcomes(d, path) ==
    IF Exists(d, path) THEN {"ok", "EPERM"} ELSE {"ENOENT"}

UnlinkError(o) ==
    IF o = "ENOENT" THEN "ENOENT: no such file or directory, unlink"
    ELSE "EPERM: operation not permitted, unlink"

CompileSourceCatchThrows(msg) == [threw |-> msg]

\* the outer catch of compileSource
CompileSourceCatch(msg) == Fail(msg)

\* await writeFile(tmpFile, source)
CsWrite(p) ==
    /\ pc[p] = "cs_write"
    /\ LET name == TmpFileOf(clock) IN
       \E o \in WriteOutcomes :
         /\ disk' = CASE o = "ok" -> [disk EXCEPT ![name] = args[p].source]
                      [] o = "fail_partial" -> [disk EXCEPT ![name] = "partial"]
                      [] OTHER -> disk
         /\ IF o = "ok"
            THEN /\ pc' = [pc EXCEPT ![p] = "cf_exists"]
                 /\ meth' = [meth EXCEPT ![p] = "compileFile"]
                 /\ loc' = [loc EXCEPT ![p].tmpFile = name, ![p].path = name,
                                       ![p].created = TRUE]
                 /\ UNCHANGED <<ret, raised>>
            ELSE /\ pc' = [pc EXCEPT ![p] = "done"]
                 /\ ret' = [ret EXCEPT ![p] = CompileSourceCatch(WriteError(o))]
                 /\ loc' = [loc EXCEPT ![p].tmpFile = name,
                                       ![p].created = (o = "fail_partial")]
                 /\ raised' = [raised EXCEPT ![p] = @ \cup {WriteError(o)}]
                 /\ UNCHANGED meth
    /\ UNCHANGED <<avail, clock, op, args, calls>>

\* await unlink(tmpFile), after compileFile returned
CsUnlink(p) ==
    /\ pc[p] = "cs_unlink"
    /\ \E o \in UnlinkOutcomes(disk, loc[p].tmpFile) :
         IF o = "ok"
         THEN /\ disk' = [disk EXCEPT ![loc[p].tmpFile] = Absent]
              /\ pc' = [pc EXCEPT ![p] = "done"]
              /\ ret' = [ret EXCEPT ![p] = loc[p].cres]
              /\ UNCHANGED <<loc, raised>>
         ELSE /\ pc' = [pc EXCEPT ![p] = "cs_unlink2"]
              /\ loc' = [loc EXCEPT ![p].err = UnlinkError(o)]
              /\ raised' = [raised EXCEPT ![p] = @ \cup {UnlinkError(o)}]
              /\ UNCHANGED <<disk, ret>>
    /\ UNCHANGED <<avail, clock, op, meth, args, calls>>

\* the inner catch: await unlink(tmpFile).catch(() => {}); throw error
CsUnlink2(p) ==
    /\ pc[p] = "cs_unlink2"
    /\ \E o \in UnlinkOutcomes(disk, loc[p].tmpFile) :
         /\ disk' = IF o = "ok" THEN [disk EXCEPT ![loc[p].tmpFile] = Absent] ELSE disk
         /\ raised' = [raised EXCEPT ![p] = IF o = "ok" THEN @ ELSE @ \cup {UnlinkError(o)}]
    /\ pc' = [pc EXCEPT ![p] = "done"]
    /\ ret' = [ret EXCEPT ![p] = CompileSourceCatch(loc[p].err)]
    /\ UNCHANGED <<avail, clock, op, meth, args, loc, calls>>

(***************************************************************************)
(* checkToolsInstallation: three probes, one after the other               *)
(***************************************************************************)
CheckOrder == <<"simcPath", "halSimplicityPath", "halSignerPath">>

ToolLabel(b) ==
    CASE b = "simcPath" -> "simc"
      [] b = "halSimplicityPath" -> "hal-simplicity"
      [] b = "halSignerPath" -> "hal-simplicity-signer"

\* the missing tools, last probed first
MissingToolsReversed(seen) ==
    LET labels == [i \in DOMAIN seen |->
                      IF seen[Len(seen) + 1 - i] THEN "" ELSE ToolLabel(CheckOrder[Len(seen) + 1 - i])]
    IN SelectSeq(labels, LAMBDA x : x # "")

\* missingTools, in the order of the three pushes
MissingTools(seen) ==
    LET labels == [i \in DOMAIN seen |-> IF seen[i] THEN "" ELSE ToolLabel(CheckOrder[i])]
    IN SelectSeq(labels, LAMBDA x : x # "")

RECURSIVE Join(_, _)
\* Array.prototype.join
Join(seq, sep) ==
    IF seq = <<>> THEN ""
    ELSE IF Len(seq) = 1 THEN seq[1]
    ELSE seq[1] \o sep \o Join(Tail(seq), sep)

Instructions(missing) ==
    "\nMissing Simplicity tools: " \o Join(missing, ", ") \o "\n\nInstallation Instructions: ..."

CheckResult(seen) ==
    [simc_installed |-> seen[1],
     hal_simplicity_installed |-> seen[2],
     hal_signer_installed |-> seen[3],
     all_installed |-> seen[1] /\ seen[2] /\ seen[3],
     missing_tools |-> MissingTools(seen),
     installation_instructions |->
         IF Len(MissingTools(seen)) > 0 THEN Instructions(MissingTools(seen))
         ELSE "All tools are installed!"]

StartCheckTools(p) ==
    Begin(p, "checkToolsInstallation", "checkToolsInstallation", InitArgs, "check")

\* autoInstallTools: every tool was there at the first check
AlreadyInstalled ==
    [success |-> TRUE, message |-> "All Simplicity tools are already installed!",
     installed_tools |-> <<"simc", "hal-simplicity">>]

\* autoInstallTools: `cargo --version` failed
CargoMissing ==
    [success |-> FALSE,
     message |-> "Rust/Cargo not found. Please install Rust first: https://rustup.rs",
     installed_tools |-> <<>>, errors |-> <<"Cargo not available">>]

\* autoInstallTools: the answer after the final check
InstallReport(finalCheck, installedTools, errors) ==
    [success |-> finalCheck.all_installed,
     message |-> IF finalCheck.all_installed
                 THEN "Successfully installed all Simplicity tools!"
                 ELSE "Some tools failed to install. See errors for details.",
     installed_tools |-> installedTools]
        @@ (IF Len(errors) > 0 THEN [errors |-> errors] ELSE EmptyObject)

\* an installer that installs both tools whatever the first check said
AiNextStepAll(check, after) ==
    IF after = "ai_cargo" THEN "ai_simc"
    ELSE IF after = "ai_simc" THEN "ai_hal"
    ELSE "check"

\* the step of autoInstallTools that follows step `after`
AiNextStep(check, after) ==
    IF after = "ai_cargo" /\ ~check.simc_installed THEN "ai_simc"
    ELSE IF after \in {"ai_cargo", "ai_simc"} /\ ~check.hal_simplicity_installed THEN "ai_hal"
    ELSE "check"

AiMethod(step) == IF step = "check" THEN "checkToolsInstallation" ELSE "autoInstallTools"

\* checkToolsInstallation has the three answers: it returns its result to
\* the caller, or to autoInstallTools as its first or its final check
CheckAfter(p, seen) ==
    LET r == CheckResult(seen) IN
    IF op[p] = "checkToolsInstallation"
    THEN /\ pc' = [pc EXCEPT ![p] = "done"]
         /\ ret' = [ret EXCEPT ![p] = r]
         /\ loc' = [loc EXCEPT ![p].seen = seen]
         /\ UNCHANGED meth
    ELSE IF loc[p].check = None
    THEN IF r.all_installed
         THEN /\ pc' = [pc EXCEPT ![p] = "done"]
              /\ ret' = [ret EXCEPT ![p] = AlreadyInstalled]
              /\ loc' = [loc EXCEPT ![p].seen = seen, ![p].check = r]
              /\ UNCHANGED meth
         ELSE /\ pc' = [pc EXCEPT ![p] = "ai_cargo"]
              /\ meth' = [meth EXCEPT ![p] = "autoInstallTools"]
              /\ loc' = [loc EXCEPT ![p].seen = <<>>, ![p].check = r]
              /\ UNCHANGED ret
    ELSE /\ pc' = [pc EXCEPT ![p] = "done"]
         /\ ret' = [ret EXCEPT ![p] = InstallReport(r, loc[p].installedTools, loc[p].errors)]
         /\ loc' = [loc EXCEPT ![p].seen = seen]
         /\ UNCHANGED meth

\* the next of: await tools.isSimcAvailable(), isHalSimplicityAvailable(),
\* isHalSignerAvailable()
CheckProbe(p) ==
    /\ pc[p] = "check"
    /\ LET b == CheckOrder[Len(loc[p].seen) + 1]
           ok == IsAvailable(avail, b, calls)
           seen == Append(loc[p].seen, ok)
       IN /\ calls' = [calls EXCEPT ![p] =
                          Append(@, [kind |-> "probe", bin |-> b, by |-> meth[p], ok |-> ok])]
          /\ IF Len(seen) < Len(CheckOrder)
             THEN /\ loc' = [loc EXCEPT ![p].seen = seen]
                  /\ UNCHANGED <<pc, ret, meth>>
             ELSE CheckAfter(p, seen)
    /\ UNCHANGED <<avail, disk, clock, op, args, raised>>

(***************************************************************************)
(* autoInstallTools: check, cargo --version, cargo install of what is      *)
(* missing, final check                                                    *)
(***************************************************************************)
InstallTimeout == 600000

\* the `timeout` option of the execAsync call of each step, 0 when the call
\* passes none
StepTimeout(step) == IF step \in {"ai_simc", "ai_hal"} THEN InstallTimeout ELSE 0

\* the steps that await a subprocess
ProcessSteps == {"probe", "exec", "check", "ai_cargo", "ai_simc", "ai_hal"}

StartAutoInstall(p) ==
    Begin(p, "autoInstallTools", "checkToolsInstallation", InitArgs, "check")

\* await execAsync('cargo --version')
AiCargo(p) ==
    /\ pc[p] = "ai_cargo"
    /\ \E ok \in BOOLEAN :
         /\ calls' = [calls EXCEPT ![p] =
                         Append(@, [kind |-> "exec", bin |-> "cargo", by |-> "autoInstallTools",
                                    ok |-> ok])]
         /\ IF ok
            THEN /\ pc' = [pc EXCEPT ![p] = AiNextStep(loc[p].check, "ai_cargo")]
                 /\ meth' = [meth EXCEPT ![p] = AiMethod(AiNextStep(loc[p].check, "ai_cargo"))]
                 /\ UNCHANGED <<ret, raised>>
            ELSE /\ pc' = [pc EXCEPT ![p] = "done"]
                 /\ ret' = [ret EXCEPT ![p] = CargoMissing]
                 /\ raised' = [raised EXCEPT ![p] =
                                  @ \cup {CommandFailed("cargo --version", "not found")}]
                 /\ UNCHANGED meth
    /\ UNCHANGED <<avail, disk, clock, op, args, loc>>

\* what a `cargo install` can do: put the binary on the PATH, exit 0
\* without a binary of that name on the PATH, fail, or be killed when the
\* call's timeout expires
InstallOutcomes == {"installed", "no_binary", "failed", "timeout"}

InstallError(o) ==
    IF o = "timeout" THEN CommandFailed("cargo install", "killed")
    ELSE CommandFailed("cargo install", "exit 101")

\* await execAsync('cargo install --git ...', { timeout: 600000 })
AiInstall(p) ==
    /\ pc[p] \in {"ai_simc", "ai_hal"}
    /\ LET tool == IF pc[p] = "ai_simc" THEN "simc" ELSE "hal-simplicity"
           b == IF pc[p] = "ai_simc" THEN "simcPath" ELSE "halSimplicityPath"
           next == AiNextStep(loc[p].check, pc[p])
       IN \E o \in InstallOutcomes :
            LET ok == o \in {"installed", "no_binary"}
                msg == "Failed to install " \o tool \o ": " \o InstallError(o)
            IN /\ (o = "timeout") => StepTimeout(pc[p]) > 0
               /\ avail' = IF o = "installed" THEN [avail EXCEPT ![b] = TRUE] ELSE avail
               /\ calls' = [calls EXCEPT ![p] =
                               Append(@, [kind |-> "exec", bin |-> "cargo",
                                          by |-> "autoInstallTools", ok |-> ok])]
               /\ loc' = [loc EXCEPT
                             ![p].installedTools = IF ok THEN Append(@, tool) ELSE @,
                             ![p].errors = IF ok THEN @ ELSE Append(@, msg)]
               /\ raised' = [raised EXCEPT ![p] = IF ok THEN @ ELSE @ \cup {InstallError(o)}]
               /\ pc' = [pc EXCEPT ![p] = next]
               /\ meth' = [meth EXCEPT ![p] = AiMethod(next)]
    /\ UNCHANGED <<disk, clock, op, args, ret>>

\* the subprocess an invocation awaits never exits, and the call passed no
\* timeout: the promise of execAsync is never settled
Hang(p) ==
    /\ pc[p] \in ProcessSteps
    /\ StepTimeout(pc[p]) = 0
    /\ pc' = [pc EXCEPT ![p] = "hung"]
    /\ loc' = [loc EXCEPT ![p].hungAt = pc[p]]
    /\ UNCHANGED <<avail, disk, clock, op, meth, args, calls, raised, ret>>

(***************************************************************************)
(* Spec: one caller issues gateway calls one after the other while         *)
(* binaries are installed and removed.                                     *)
(***************************************************************************)
Init == EnvInit /\ ProcInit

Next ==
    \/ \E b \in Binaries : EnvChange(b)
    \/ Tick
    \/ StartCompileFile(1)
    \/ StartCompileSource(1)
    \/ StartGateway(1)
    \/ StartCheckTools(1)
    \/ CfExists(1)
    \/ Probe(1)
    \/ Exec(1)
    \/ CsWrite(1)
    \/ CsUnlink(1)
    \/ CsUnlink2(1)
    \/ CheckProbe(1)
    \/ Finish(1)

Spec == Init /\ [][Next]_vars

(***************************************************************************)
(* SpecHang: as Spec, with autoInstallTools, and with subprocesses that    *)
(* may never exit.                                                         *)
(***************************************************************************)
HangNext ==
    \/ \E b \in Binaries : EnvChange(b)
    \/ StartCompileFile(1)
    \/ StartCompileSource(1)
    \/ StartGateway(1)
    \/ StartCheckTools(1)
    \/ StartAutoInstall(1)
    \/ CfExists(1)
    \/ Probe(1)
    \/ Exec(1)
    \/ CsWrite(1)
    \/ CsUnlink(1)
    \/ CsUnlink2(1)
    \/ CheckProbe(1)
    \/ AiCargo(1)
    \/ AiInstall(1)
    \/ Hang(1)
    \/ Finish(1)

SpecHang == Init /\ [][HangNext]_vars

(***************************************************************************)
(* SpecCompile: two compile invocations run concurrently.                  *)
(***************************************************************************)
CompileInit ==
    /\ avail \in {a \in [Binaries -> BOOLEAN] : a["halSimplicityPath"] /\ a["halSignerPath"]}
    /\ disk = [n \in TmpNames |-> Absent]
    /\ clock = 0
    /\ ProcInit

CompileNext ==
    \/ EnvChange("simcPath")
    \/ Tick
    \/ \E p \in Procs : StartCompileFile(p)
    \/ \E p \in Procs : StartCompileSource(p)
    \/ \E p \in Procs : CfExists(p)
    \/ \E p \in Procs : Probe(p)
    \/ \E p \in Procs : Exec(p)
    \/ \E p \in Procs : CsWrite(p)
    \/ \E p \in Procs : CsUnlink(p)
    \/ \E p \in Procs : CsUnlink2(p)

SpecCompile == CompileInit /\ [][CompileNext]_vars

(***************************************************************************)
(* The faucet client                                                       *)
(***************************************************************************)
HttpOutcomes == {"txid", "no_txid", "axios_error", "other_error"}

\* requestFunds: one GET, mapped to a FaucetResponse
RequestFunds(h) ==
    CASE h = "txid" -> [success |-> TRUE, txid |-> "ab12", message |-> "Funds requested successfully"]
      [] h = "no_txid" -> [success |-> FALSE, message |-> "Faucet request sent but no txid found in response"]
      [] h = "axios_error" -> [success |-> FALSE, error |-> "Faucet request failed: " \o "timeout of 30000ms exceeded"]
      [] OTHER -> [success |-> FALSE, error |-> "socket hang up"]

\* result.error || result.message
LastErrorOf(result) == IF Truthy(result, "error") THEN result.error ELSE result.message

RetryExhausted(maxRetries, lastError) ==
    [success |-> FALSE,
     error |-> "Failed after " \o ToString(maxRetries) \o " attempts. Last error: " \o lastError]

\* what the caller of requestFundsWithRetry does with its result
FundReturn(p, fundResult) ==
    IF op[p] = "requestFundsWithRetry" THEN fundResult
    ELSE DeployWithFunding(loc[p].response, fundResult)

\* a loop that stops one attempt early
RetryLimitShort(maxRetries) == maxRetries - 1

\* attempt <= maxRetries, attempt < maxRetries
RetryLimit(maxRetries) == maxRetries

\* one turn of the loop of requestFundsWithRetry: the request, and the
\* delay when another turn follows
Fund(p) ==
    /\ pc[p] = "fund"
    /\ loc[p].attempt <= RetryLimit(args[p].maxRetries)
    /\ \E h \in HttpOutcomes :
         LET result == RequestFunds(h) IN
         /\ calls' = [calls EXCEPT ![p] =
                         Append(@, [kind |-> "http", bin |-> "faucet", by |-> "requestFunds",
                                    ok |-> result.success, out |-> h])]
         /\ IF result.success
            THEN /\ pc' = [pc EXCEPT ![p] = "done"]
                 /\ ret' = [ret EXCEPT ![p] = FundReturn(p, result)]
                 /\ UNCHANGED <<loc, raised>>
            ELSE /\ raised' = [raised EXCEPT ![p] = @ \cup {LastErrorOf(result)}]
                 /\ IF loc[p].attempt < RetryLimit(args[p].maxRetries)
                    THEN /\ loc' = [loc EXCEPT ![p].attempt = @ + 1,
                                               ![p].lastError = LastErrorOf(result)]
                         /\ UNCHANGED <<pc, ret>>
                    ELSE /\ loc' = [loc EXCEPT ![p].lastError = LastErrorOf(result)]
                         /\ pc' = [pc EXCEPT ![p] = "done"]
                         /\ ret' = [ret EXCEPT ![p] =
                                       FundReturn(p, RetryExhausted(args[p].maxRetries,
                                                                    LastErrorOf(result)))]
    /\ UNCHANGED <<avail, disk, clock, op, meth, args>>

\* the loop test fails before the first turn: lastError is still undefined
FundNone(p) ==
    /\ pc[p] = "fund"
    /\ loc[p].attempt > RetryLimit(args[p].maxRetries)
    /\ pc' = [pc EXCEPT ![p] = "done"]
    /\ ret' = [ret EXCEPT ![p] = FundReturn(p, RetryExhausted(args[p].maxRetries, "undefined"))]
    /\ UNCHANGED <<avail, disk, clock, op, meth, args, loc, calls, raised>>

MaxRetriesArg == 4

\* requestFundsWithRetry(request, maxRetries, delayMs) called on its own
StartRetry(p) ==
    /\ pc[p] = "idle"
    /\ \E n \in 0..MaxRetriesArg :
         /\ args' = [args EXCEPT ![p] = [InitArgs EXCEPT !.maxRetries = n]]
         /\ pc' = [pc EXCEPT ![p] = "fund"]
         /\ op' = [op EXCEPT ![p] = "requestFundsWithRetry"]
         /\ meth' = [meth EXCEPT ![p] = "requestFundsWithRetry"]
         /\ loc' = [loc EXCEPT ![p] = [InitLoc EXCEPT !.attempt = 1]]
         /\ calls' = [calls EXCEPT ![p] = <<>>]
         /\ raised' = [raised EXCEPT ![p] = {}]
         /\ ret' = [ret EXCEPT ![p] = None]
    /\ UNCHANGED <<avail, disk, clock>>

RetryInit ==
    /\ ProcInit
    /\ avail = [b \in Binaries |-> TRUE]
    /\ disk = [n \in TmpNames |-> Absent]
    /\ clock = 0

RetryNext ==
    \/ StartRetry(1)
    \/ Fund(1)
    \/ FundNone(1)

SpecRetry == RetryInit /\ [][RetryNext]_vars

StartDeploy(p) ==
    \E path \in UserPaths, af \in BOOLEAN :
        Begin(p, "contract_deploy", "compileFile",
              [InitArgs EXCEPT !.path = path, !.auto_fund = af], "cf_exists")

(***************************************************************************)
(* SpecDeploy: contract_deploy invocations, while the compiler and the     *)
(* inspector are installed and removed.                                    *)
(***************************************************************************)
DeployInit ==
    /\ avail \in {a \in [Binaries -> BOOLEAN] : a["halSignerPath"]}
    /\ disk = [n \in TmpNames |-> Absent]
    /\ clock = 0
    /\ ProcInit

DeployNext ==
    \/ EnvChange("simcPath")
    \/ EnvChange("halSimplicityPath")
    \/ StartDeploy(1)
    \/ CfExists(1)
    \/ Probe(1)
    \/ Exec(1)
    \/ Fund(1)
    \/ Finish(1)

SpecDeploy == DeployInit /\ [][DeployNext]_vars

(***************************************************************************)
(* The call-tool request handler and the handlers it dispatches to         *)
(***************************************************************************)
\* the handlers of createHandlers that are modelled
ToolHandlers == {"elements_get_block", "contract_spend"}

\* toolHandlers is an object literal: these names resolve through
\* Object.prototype, to a function and to an object
InheritedFunctions == {"toString"}

InheritedObjects == {"__proto__"}

RequestNames == ToolHandlers \cup InheritedFunctions \cup InheritedObjects \cup {"no_such_tool"}

\* toolHandlers[name]
Lookup(name) ==
    CASE name \in ToolHandlers -> "handler"
      [] name \in InheritedFunctions -> "inherited_function"
      [] name \in InheritedObjects -> "inherited_object"
      [] OTHER -> "undefined"

\* createTextResponse: the data as JSON.stringify keeps it
TextResponse(data) == [content |-> data]

\* the response the request handler builds in its catch
ErrorResponse(msg) == [text |-> "Error: " \o msg, isError |-> TRUE]

\* an exception that leaves the request handler
Thrown(msg) == [threw |-> msg]

WitnessPaths == {"w.json"}

WitnessContents == {"{\"sig\":\"00\"}", "[]", "", "{sig", "<dir>", "<noperm>"}

\* await readFile(witness_file, 'utf-8')
ReadOutcome(d, path) ==
    IF ~Exists(d, path)
    THEN [ok |-> FALSE, msg |-> "ENOENT: no such file or directory, open '" \o path \o "'"]
    ELSE IF d[path] = "<dir>"
    THEN [ok |-> FALSE, msg |-> "EISDIR: illegal operation on a directory, read"]
    ELSE IF d[path] = "<noperm>"
    THEN [ok |-> FALSE, msg |-> "EACCES: permission denied, open '" \o path \o "'"]
    ELSE [ok |-> TRUE, text |-> d[path]]

\* JSON.parse
ParseJson(text) ==
    CASE text = "{\"sig\":\"00\"}" -> [ok |-> TRUE, value |-> [sig |-> "00"]]
      [] text = "[]" -> [ok |-> TRUE, value |-> <<>>]
      [] text = "" -> [ok |-> FALSE, msg |-> "Unexpected end of JSON input"]
      [] OTHER -> [ok |-> FALSE, msg |-> "Expected property name or '}' in JSON at position 1"]

SpendArgs ==
    {[witness_file |-> w, program |-> "P1"] @@ u @@ v @@ d :
        w \in WitnessPaths,
        u \in {EmptyObject, [utxo_txid |-> ""], [utxo_txid |-> "tx1"]},
        v \in {EmptyObject, [utxo_vout |-> "0"]},
        d \in {EmptyObject, [destination |-> "addr1"]}}

GetBlockArgs ==
    {h @@ g : h \in {EmptyObject, [hash |-> ""], [hash |-> "ab"]},
              g \in {EmptyObject, [height |-> "0"]}}

ArgsOf(name) ==
    CASE name = "contract_spend" -> SpendArgs
      [] name = "elements_get_block" -> GetBlockArgs
      [] OTHER -> {EmptyObject}

SpendFileCheckSkipped(file, exists) == None

\* contract_spend's existsSync test: None lets the handler go on
SpendFileCheck(file, exists) ==
    IF exists THEN None ELSE Fail("Witness file not found: " \o file)

SpendInstructions ==
    <<"1. Use hal-simplicity to create spending transaction",
      "2. Sign the transaction",
      "3. Broadcast with elements-cli sendrawtransaction">>

SpendSuccess(a, witness) ==
    [success |-> TRUE, witness |-> witness,
     note |-> "This is a simplified representation. Use hal-simplicity to create and broadcast the actual transaction.",
     instructions |-> SpendInstructions]
        @@ Pick(a, "program")
        @@ (IF Truthy(a, "utxo_txid")
            THEN [utxo |-> [txid |-> a.utxo_txid]
                              @@ (IF HasField(a, "utxo_vout") THEN [vout |-> a.utxo_vout]
                                  ELSE EmptyObject)]
            ELSE EmptyObject)
        @@ Pick(a, "destination")

\* the catch of contract_spend
SpendFailure(msg) == Fail(msg)

\* elements_get_block: if (!hash && height === undefined) throw
GetBlockRejects(a) == ~Truthy(a, "hash") /\ ~HasField(a, "height")

StartCallTool(p) ==
    \E name \in RequestNames : \E a \in ArgsOf(name) :
        Begin(p, "call_tool", name, [InitArgs EXCEPT !.tool = name] @@ a, "dispatch")

\* the request handler: lookup, then the handler up to its first await
Dispatch(p) ==
    /\ pc[p] = "dispatch"
    /\ LET name == args[p].tool
           found == Lookup(name)
           spend == SpendFileCheck(args[p].witness_file, Exists(disk, args[p].witness_file))
           existed == IF Exists(disk, args[p].witness_file) THEN "yes" ELSE "no"
       IN IF found = "undefined"
          THEN /\ pc' = [pc EXCEPT ![p] = "done"]
               /\ ret' = [ret EXCEPT ![p] = Thrown("Unknown tool: " \o name)]
               /\ raised' = [raised EXCEPT ![p] = @ \cup {"Unknown tool: " \o name}]
               /\ UNCHANGED loc
          ELSE IF found = "inherited_object"
          THEN /\ pc' = [pc EXCEPT ![p] = "done"]
               /\ ret' = [ret EXCEPT ![p] = ErrorResponse("toolHandlers[name] is not a function")]
               /\ raised' = [raised EXCEPT ![p] = @ \cup {"toolHandlers[name] is not a function"}]
               /\ UNCHANGED loc
          ELSE IF found = "inherited_function"
          THEN /\ pc' = [pc EXCEPT ![p] = "done"]
               /\ ret' = [ret EXCEPT ![p] = [returned |-> "[object Object]"]]
               /\ loc' = [loc EXCEPT ![p].ran = "Object.prototype." \o name]
               /\ UNCHANGED raised
          ELSE IF name = "elements_get_block"
          THEN IF GetBlockRejects(args[p])
               THEN /\ pc' = [pc EXCEPT ![p] = "done"]
                    /\ ret' = [ret EXCEPT ![p] =
                                  ErrorResponse("Either 'hash' or 'height' must be provided")]
                    /\ raised' = [raised EXCEPT ![p] =
                                     @ \cup {"Either 'hash' or 'height' must be provided"}]
                    /\ loc' = [loc EXCEPT ![p].ran = name]
               ELSE /\ pc' = [pc EXCEPT ![p] = "gb_await"]
                    /\ loc' = [loc EXCEPT ![p].ran = name]
                    /\ UNCHANGED <<ret, raised>>
          ELSE IF spend = None
               THEN /\ pc' = [pc EXCEPT ![p] = "spend_read"]
                    /\ loc' = [loc EXCEPT ![p].ran = name, ![p].existed = existed]
                    /\ UNCHANGED <<ret, raised>>
               ELSE /\ pc' = [pc EXCEPT ![p] = "done"]
                    /\ ret' = [ret EXCEPT ![p] = TextResponse(spend)]
                    /\ loc' = [loc EXCEPT ![p].ran = name, ![p].existed = existed]
                    /\ UNCHANGED raised
    /\ UNCHANGED <<avail, disk, clock, op, meth, args, calls>>

\* await esploraClient.getBlock(hash ?? height)
GetBlock(p) ==
    /\ pc[p] = "gb_await"
    /\ \E ok \in BOOLEAN :
         /\ calls' = [calls EXCEPT ![p] =
                         Append(@, [kind |-> "http", bin |-> "esplora", by |-> "getBlock",
                                    ok |-> ok])]
         /\ ret' = [ret EXCEPT ![p] =
                       IF ok THEN TextResponse([id |-> "ab", height |-> "0"])
                       ELSE ErrorResponse("Request failed with status code 404")]
         /\ raised' = [raised EXCEPT ![p] =
                          IF ok THEN @ ELSE @ \cup {"Request failed with status code 404"}]
    /\ pc' = [pc EXCEPT ![p] = "done"]
    /\ UNCHANGED <<avail, disk, clock, op, meth, args, loc>>

\* contract_spend: await readFile(...), JSON.parse(...), and the answer
SpendRead(p) ==
    /\ pc[p] = "spend_read"
    /\ LET r == ReadOutcome(disk, args[p].witness_file)
           j == IF r.ok THEN ParseJson(r.text) ELSE r
       IN /\ loc' = [loc EXCEPT ![p].content = IF r.ok THEN r.text ELSE "<unread>"]
          /\ ret' = [ret EXCEPT ![p] =
                        TextResponse(IF j.ok THEN SpendSuccess(args[p], j.value)
                                     ELSE SpendFailure(j.msg))]
          /\ raised' = [raised EXCEPT ![p] = IF j.ok THEN @ ELSE @ \cup {j.msg}]
    /\ pc' = [pc EXCEPT ![p] = "done"]
    /\ UNCHANGED <<avail, disk, clock, op, meth, args, calls>>

\* the witness file is written, replaced or removed behind the server's back
WitnessChange ==
    /\ \E f \in WitnessPaths : \E c \in WitnessContents \cup {Absent} :
         /\ c # disk[f]
         /\ disk' = [disk EXCEPT ![f] = c]
    /\ UNCHANGED <<avail, clock, pc, op, meth, args, loc, calls, raised, ret>>

(***************************************************************************)
(* SpecTools: tool calls arrive at the request handler one after the       *)
(* other.                                                                  *)
(***************************************************************************)
ToolsInit ==
    /\ avail = [b \in Binaries |-> TRUE]
    /\ disk \in [TmpNames \cup WitnessPaths -> {Absent} \cup WitnessContents]
    /\ \A n \in TmpNames : disk[n] = Absent
    /\ clock = 0
    /\ ProcInit

ToolsNext ==
    \/ WitnessChange
    \/ StartCallTool(1)
    \/ Dispatch(1)
    \/ GetBlock(1)
    \/ SpendRead(1)
    \/ Finish(1)

SpecTools == ToolsInit /\ [][ToolsNext]_vars

(***************************************************************************)
(* Source texts.  A text is the sequence of its lexemes: maximal runs of   *)
(* word characters (\w+), runs of blanks, newlines and single punctuation  *)
(* characters.                                                             *)
(***************************************************************************)
Sp == " "

Ind == "    "

Nl == "\n"

\* \s
IsSpace(t) == t \in {Sp, Ind, Nl}

Puncts == {"(", ")", "{", "}", ":", ";", "=", ",", "\"", "/", "!"}

\* \w+
IsWord(t) == ~IsSpace(t) /\ t \notin Puncts

\* the words of the modelled texts that have another modelled word as a
\* proper prefix, and as a proper substring
WordPrefixes == {<<"sha256_32", "sha256">>}

WordParts == {<<"witnesses", "witness">>}

StartsWith(w, pre) == w = pre \/ <<w, pre>> \in WordPrefixes

Contains(w, part) == w = part \/ <<w, part>> \in WordParts

ModelJets ==
    {"eq_32", "lt_32", "le_32", "gt_32", "sha256", "sha256_32",
     "current_block_height", "check_sig", "add_32", "sub_32", "mul_32"}

PlainLines ==
    {"main", "top_let", "in_let", "witness", "if", "match", "if_match",
     "custom_fn", "tuple", "comment"}

LineIds ==
    {[kind |-> k, jet |-> ""] : k \in PlainLines}
        \cup {[kind |-> "jet", jet |-> x] : x \in ModelJets}

LineText(l) ==
    CASE l.kind = "main" -> <<"fn", Sp, "main", "(", ")", Sp, "{", Sp, "(", ")", Sp, "}">>
      [] l.kind = "top_let" -> <<"let", Sp, "x", ":", Sp, "u32", Sp, "=", Sp, "42", ";">>
      [] l.kind = "in_let" -> <<Ind, "let", Sp, "x", ":", Sp, "u32", Sp, "=", Sp, "42", ";">>
      [] l.kind = "witness" ->
           <<Ind, "let", Sp, "w", Sp, "=", Sp, "witness", "(", "\"", "a", "\"", ")", ";">>
      [] l.kind = "if" ->
           <<Ind, "if", Sp, "a", Sp, "{", Sp, "(", ")", Sp, "}", Sp, "else", Sp, "{", Sp,
             "(", ")", Sp, "}">>
      [] l.kind = "match" -> <<Ind, "match", Sp, "a", Sp, "{", Sp, "}">>
      [] l.kind = "if_match" ->
           <<Ind, "if", Sp, "a", Sp, "{", Sp, "match", Sp, "b", Sp, "{", Sp, "}", Sp, "}">>
      [] l.kind = "custom_fn" -> <<"fn", Sp, "helper", "(", ")", Sp, "{", Sp, "(", ")", Sp, "}">>
      [] l.kind = "tuple" ->
           <<Ind, "let", Sp, "(", "a", ",", Sp, "b", ")", Sp, "=", Sp, "pair", ";">>
      [] l.kind = "comment" ->
           <<"/", "/", Sp, "if", Sp, "needed", ",", Sp, "add", Sp, "witnesses">>
      [] l.kind = "jet" ->
           <<Ind, "let", Sp, "r", ":", Sp, "bool", Sp, "=", Sp, "jet", ":", ":", l.jet,
             "(", "a", ",", Sp, "b", ")", ";">>

RECURSIVE SourceText(_)
\* the text whose lines are ls
SourceText(ls) ==
    IF ls = <<>> THEN <<>>
    ELSE IF Len(ls) = 1 THEN LineText(ls[1])
    ELSE LineText(ls[1]) \o <<Nl>> \o SourceText(Tail(ls))

LineSeqs == UNION {[1..n -> LineIds] : n \in 0..MaxLines}

ValidatorInputs == {SourceText(ls) : ls \in LineSeqs}

(***************************************************************************)
(* validateSyntax: the patterns it tests and the lists it builds           *)
(***************************************************************************)
\* the position of the first lexeme at or after i that is not blank
SkipSpaces(t, i) ==
    CHOOSE j \in i..(Len(t) + 1) :
        /\ j = Len(t) + 1 \/ ~IsSpace(t[j])
        /\ \A k \in i..(j - 1) : IsSpace(t[k])

WordAt(t, i) == i <= Len(t) /\ IsWord(t[i])

\* kw\s+\w+ at position i, kw starting and ending a word
KeywordThenWord(t, i, kw) ==
    /\ t[i] = kw
    /\ i + 1 <= Len(t) /\ IsSpace(t[i + 1])
    /\ WordAt(t, SkipSpaces(t, i + 1))

\* /^let\s+\w+/m
TopLevelLet(t) ==
    \E i \in DOMAIN t : (i = 1 \/ t[i - 1] = Nl) /\ KeywordThenWord(t, i, "let")

\* source.includes('witness')
IncludesWitness(t) == \E i \in DOMAIN t : IsWord(t[i]) /\ Contains(t[i], "witness")

\* /\bif\s+\w+/
HasIf(t) == \E i \in DOMAIN t : KeywordThenWord(t, i, "if")

\* /\bmatch\s+\w+/
HasMatch(t) == \E i \in DOMAIN t : KeywordThenWord(t, i, "match")

\* source.includes(`jet::${jet}`)
IncludesJet(t, jet) ==
    \E i \in DOMAIN t :
        /\ i + 3 <= Len(t)
        /\ t[i] = "jet" /\ t[i + 1] = ":" /\ t[i + 2] = ":"
        /\ StartsWith(t[i + 3], jet)

\* /let\s+\w+\s*=\s*\w+\(/
AssignmentFromCall(t) ==
    \E i \in DOMAIN t :
        /\ KeywordThenWord(t, i, "let")
        /\ LET k == SkipSpaces(t, SkipSpaces(t, i + 1) + 1) IN
             /\ k <= Len(t) /\ t[k] = "="
             /\ LET m == SkipSpaces(t, k + 1) IN
                  WordAt(t, m) /\ m + 1 <= Len(t) /\ t[m + 1] = "("

\* source.includes('fn main()')
IncludesFnMain(t) ==
    \E i \in DOMAIN t :
        /\ i + 4 <= Len(t)
        /\ t[i] = "fn" /\ t[i + 1] = Sp /\ t[i + 2] = "main"
        /\ t[i + 3] = "(" /\ t[i + 4] = ")"

\* /fn\s+(?!main)\w+\s*\(/
HasCustomFn(t) ==
    \E i \in DOMAIN t :
        /\ KeywordThenWord(t, i, "fn")
        /\ LET j == SkipSpaces(t, i + 1)
               k == SkipSpaces(t, j + 1)
           IN /\ ~StartsWith(t[j], "main")
              /\ k <= Len(t) /\ t[k] = "("

\* The messages, with ' where the source has a backquote.
ErrTopLevelLet ==
    "Top-level 'let' declarations are not supported. Move all 'let' statements inside the 'main()' function."

ErrIf == "Conditional statements (if/else) are not supported in current simc version."

ErrMatch == "Pattern matching with 'match' is not supported in current simc version."

ErrNoMain == "Missing 'fn main()' function. Every program must have a main() function."

WarnWitness ==
    "IMPORTANT: 'witness' is not available in current simc version. Use hardcoded values for now."

WarnJet(jet) == "jet::" \o jet \o " may not be available. Supported jets: eq_32, lt_32, le_32"

WarnAssignment ==
    "Assigning function return values may fail if the function returns a complex type (tuple, etc)."

WarnCustomFn ==
    "Custom functions have limited support. Keep functions simple and test thoroughly."

unsupportedJets ==
    <<"gt_32", "ge_32", "and", "or", "not", "sha256", "sha256_32", "verify",
      "current_block_height", "check_sig">>

\* a validator that stops at its first finding
PushIfFirstOnly(list, cond, msg) == IF cond /\ list = <<>> THEN Append(list, msg) ELSE list

\* if (cond) list.push(msg)
PushIf(list, cond, msg) == IF cond THEN Append(list, msg) ELSE list

RECURSIVE JetWarnings(_, _, _)
\* for (const jet of unsupportedJets) if (source.includes(...)) warnings.push(...)
JetWarnings(t, jets, warnings) ==
    IF jets = <<>> THEN warnings
    ELSE JetWarnings(t, Tail(jets), PushIf(warnings, IncludesJet(t, Head(jets)), WarnJet(Head(jets))))

\* a validator for which a warning makes the source invalid
ValidOfStrict(errors, warnings) == Len(errors) = 0 /\ Len(warnings) = 0

\* valid: errors.length === 0
ValidOf(errors, warnings) == Len(errors) = 0

ValidateSyntax(t) ==
    LET e1 == PushIf(<<>>, TopLevelLet(t), ErrTopLevelLet)
        e2 == PushIf(e1, HasIf(t), ErrIf)
        e3 == PushIf(e2, HasMatch(t), ErrMatch)
        errors == PushIf(e3, ~IncludesFnMain(t), ErrNoMain)
        w1 == PushIf(<<>>, IncludesWitness(t), WarnWitness)
        w2 == JetWarnings(t, unsupportedJets, w1)
        w3 == PushIf(w2, AssignmentFromCall(t), WarnAssignment)
        warnings == PushIf(w3, HasCustomFn(t), WarnCustomFn)
        s1 == PushIf(<<>>, TopLevelLet(t), "Example: fn main() { let x: u32 = 42; () }")
        s2 == PushIf(s1, IncludesWitness(t),
                     "Replace 'let x = witness(\"value\")' with 'let x: u32 = 42' (hardcoded value)")
        s3 == PushIf(s2, HasIf(t), "Use 'assert!()' for validation instead of conditional logic.")
        suggestions == PushIf(s3, AssignmentFromCall(t),
                              "Ensure functions return simple types (u32, bool, ())")
    IN [valid |-> ValidOf(errors, warnings), errors |-> errors, warnings |-> warnings,
        suggestions |-> suggestions]

\* getAvailableFeatures().notSupported
NotSupported ==
    <<"Top-level let declarations", "witness keyword (not yet available)",
      "if/else conditional statements", "match pattern matching",
      "Custom function definitions (limited)", "Tuple destructuring",
      "Hash functions (sha256, etc)", "Blockchain context (current_block_height, etc)",
      "Signature verification (check_sig)">>

\* getAvailableFeatures().jets.working
JetsWorking == <<"jet::eq_32", "jet::lt_32", "jet::le_32">>

\* getAvailableFeatures().jets.notTested
JetsNotTested ==
    <<"jet::add_32 (returns tuple)", "jet::sub_32", "jet::mul_32", "jet::sha256",
      "jet::verify", "jet::check_sig">>

StartValidate(p) ==
    \E t \in ValidatorInputs :
        Begin(p, "validateSyntax", "validateSyntax", [InitArgs EXCEPT !.source = t], "validate")

\* the text validateSyntax is applied to: the caller's, or the example
\* generateExample returned
SourceOf(p) == IF op[p] = "generateExample" THEN loc[p].example.text ELSE args[p].source

Validate(p) ==
    /\ pc[p] = "validate"
    /\ pc' = [pc EXCEPT ![p] = "done"]
    /\ ret' = [ret EXCEPT ![p] = ValidateSyntax(SourceOf(p))]
    /\ UNCHANGED <<avail, disk, clock, op, meth, args, loc, calls, raised>>

(***************************************************************************)
(* generateExample                                                         *)
(***************************************************************************)
Join2(a, b) == a \o <<Nl>> \o b

RECURSIVE Lines(_)
\* the text whose lines are the given lexeme sequences
Lines(ls) == IF Len(ls) = 1 THEN ls[1] ELSE Join2(ls[1], Lines(Tail(ls)))

MainOpen == <<"fn", Sp, "main", "(", ")", Sp, "{">>

UnitLine == <<Ind, "(", ")">>

\* let <name>: <type> = <value>;
LetLine(name, type, value) == <<Ind, "let", Sp, name, ":", Sp, type, Sp, "=", Sp>> \o value \o <<";">>

JetCall(jet, a, b) == <<"jet", ":", ":", jet, "(", a, ",", Sp, b, ")">>

ExampleMinimal ==
    Lines(<< <<"/", "/", Sp, "Minimal", Sp, "working", Sp, "Simplicity", Sp, "program">>,
             MainOpen, UnitLine, <<"}">> >>)

ExampleComparison ==
    Lines(<< <<"/", "/", Sp, "Example", Sp, "using", Sp, "comparison", Sp, "jets">>,
             MainOpen,
             LetLine("a", "u32", <<"100">>),
             LetLine("b", "u32", <<"50">>),
             <<Ind>>,
             <<Ind, "/", "/", Sp, "Compare", Sp, "values">>,
             LetLine("equal", "bool", JetCall("eq_32", "a", "b")),
             LetLine("less_than", "bool", JetCall("lt_32", "b", "a")),
             LetLine("less_or_eq", "bool", JetCall("le_32", "b", "a")),
             <<Ind>>,
             UnitLine, <<"}">> >>)

ExampleAssertion ==
    Lines(<< <<"/", "/", Sp, "Example", Sp, "using", Sp, "assertions", Sp, "for", Sp, "validation">>,
             MainOpen,
             LetLine("value", "u32", <<"42">>),
             LetLine("expected", "u32", <<"42">>),
             <<Ind>>,
             <<Ind, "/", "/", Sp, "Verify", Sp, "value", Sp, "matches", Sp, "expected">>,
             LetLine("is_valid", "bool", JetCall("eq_32", "value", "expected")),
             <<Ind, "assert", "!", "(", "is_valid", ")", ";">>,
             <<Ind>>,
             UnitLine, <<"}">> >>)

\* the own keys of the examples object
ExampleKeys == {"minimal", "comparison", "assertion"}

\* names every object literal inherits from Object.prototype
ObjectPrototypeKeys == {"toString", "__proto__"}

Patterns == ExampleKeys \cup ObjectPrototypeKeys \cup {"", "unknown"}

\* examples[pattern] || examples.minimal
GenerateExample(pattern) ==
    CASE pattern = "minimal" -> [text |-> ExampleMinimal]
      [] pattern = "comparison" -> [text |-> ExampleComparison]
      [] pattern = "assertion" -> [text |-> ExampleAssertion]
      [] pattern \in ObjectPrototypeKeys -> [inherited |-> "Object.prototype." \o pattern]
      [] OTHER -> [text |-> ExampleMinimal]

StartGenerate(p) ==
    \E pattern \in Patterns :
        Begin(p, "generateExample", "generateExample",
              [InitArgs EXCEPT !.pattern = pattern], "generate")

\* generateExample(pattern), whose value is then given to validateSyntax:
\* a value that is not a string has no includes method (line 441)
Generate(p) ==
    /\ pc[p] = "generate"
    /\ LET ex == GenerateExample(args[p].pattern) IN
         /\ loc' = [loc EXCEPT ![p].example = ex]
         /\ IF HasField(ex, "text")
            THEN /\ pc' = [pc EXCEPT ![p] = "validate"]
                 /\ UNCHANGED <<ret, raised>>
            ELSE /\ pc' = [pc EXCEPT ![p] = "done"]
                 /\ ret' = [ret EXCEPT ![p] = Thrown("source.includes is not a function")]
                 /\ raised' = [raised EXCEPT ![p] = @ \cup {"source.includes is not a function"}]
    /\ UNCHANGED <<avail, disk, clock, op, meth, args, calls>>

(***************************************************************************)
(* SpecValidate: validateSyntax applied to each of the modelled texts      *)
(***************************************************************************)
ValidateInit ==
    /\ avail = [b \in Binaries |-> TRUE]
    /\ disk = [n \in TmpNames |-> Absent]
    /\ clock = 0
    /\ ProcInit

ValidateNext ==
    \/ StartValidate(1)
    \/ StartGenerate(1)
    \/ Generate(1)
    \/ Validate(1)

SpecValidate == ValidateInit /\ [][ValidateNext]_vars

(***************************************************************************)
(* Properties                                                              *)
(***************************************************************************)

(***************************************************************************)
(* suggestFix.  An error message is a sequence of fragments; a fragment    *)
(* is one of the texts the function looks for, or a text that holds none   *)
(* of them, so that includes is membership.                                *)
(***************************************************************************)
MaxParts == 5

SigEoi == "expected EOI or item"

SigCallArgs == "Grammar error: expected call_args"

SigJet == "Jet"

SigNotExist == "does not exist"

SigType == "Expected expression of type"

Fragments == {SigEoi, SigCallArgs, SigJet, SigNotExist, SigType, "jet exists"}

RECURSIVE SeqsUpTo(_, _)
SeqsUpTo(S, n) ==
    IF n = 0 THEN {<<>>}
    ELSE LET shorter == SeqsUpTo(S, n - 1) IN
         shorter \cup {Append(m, x) : m \in {t \in shorter : Len(t) = n - 1}, x \in S}

ErrorMessages == SeqsUpTo(Fragments, MaxParts)

\* errorMessage.includes(text)
Includes(msg, text) == \E i \in 1..Len(msg) : msg[i] = text

\* the four tests, in the order of the source
SignatureOrder == <<"eoi", "call_args", "jet", "type">>

SignatureMatches(msg, sig) ==
    CASE sig = "eoi" -> Includes(msg, SigEoi)
      [] sig = "call_args" -> Includes(msg, SigCallArgs)
      [] sig = "jet" -> Includes(msg, SigJet) /\ Includes(msg, SigNotExist)
      [] sig = "type" -> Includes(msg, SigType)

\* the messages, with ' where the source has a backquote
SuggestionsOf(sig) ==
    CASE sig = "eoi" ->
            <<"This error usually means a top-level declaration is not allowed.",
              "Move all 'let' statements inside fn main() { ... }">>
      [] sig = "call_args" ->
            <<"This might be due to: 1) using witness which is not available, 2) incorrect function call syntax, or 3) trying to assign a tuple return value",
              "Try using simple types and hardcoded values">>
      [] sig = "jet" ->
            <<"This jet is not available in current simc version.",
              "Available jets: eq_32, lt_32, le_32">>
      [] sig = "type" ->
            <<"Type mismatch detected. Some jets return tuples (like add_32 returns (bool, u32))",
              "Use jets that return simple types: eq_32, lt_32, le_32">>

GenericSuggestion == "Check the simc documentation or use generateExample() to see working patterns"

\* an else-if chain: only the first test that matches pushes
PushSuggestionsFirstOnly(acc, msg, sig) ==
    IF SignatureMatches(msg, sig) /\ acc = <<>> THEN acc \o SuggestionsOf(sig) ELSE acc

\* if (test) { suggestions.push(a); suggestions.push(b); }
PushSuggestions(acc, msg, sig) ==
    IF SignatureMatches(msg, sig) THEN acc \o SuggestionsOf(sig) ELSE acc

SuggestFix(msg) ==
    LET s1 == PushSuggestions(<<>>, msg, SignatureOrder[1])
        s2 == PushSuggestions(s1, msg, SignatureOrder[2])
        s3 == PushSuggestions(s2, msg, SignatureOrder[3])
        s4 == PushSuggestions(s3, msg, SignatureOrder[4])
    IN  IF Len(s4) = 0 THEN <<GenericSuggestion>> ELSE s4

StartSuggest(p) ==
    /\ pc[p] = "idle"
    /\ \E msg \in ErrorMessages :
          Begin(p, "suggestFix", "suggestFix", [InitArgs EXCEPT !.source = msg], "suggest")

Suggest(p) ==
    /\ pc[p] = "suggest"
    /\ pc' = [pc EXCEPT ![p] = "done"]
    /\ ret' = [ret EXCEPT ![p] = SuggestFix(args[p].source)]
    /\ UNCHANGED <<avail, disk, clock, op, meth, args, loc, calls, raised>>

SuggestInit ==
    /\ ProcInit
    /\ avail = [b \in Binaries |-> TRUE]
    /\ disk = [n \in TmpNames |-> Absent]
    /\ clock = 0

SuggestNext ==
    \/ StartSuggest(1)
    \/ Suggest(1)

SpecSuggest == SuggestInit /\ [][SuggestNext]_vars


(***************************************************************************)
(* The handlers simplicity_compile_source and simplicity_compile_file:     *)
(* validateSyntax, then the gateway's compileSource or compileFile, then   *)
(* the response.  op names the gateway method the handler awaits,          *)
(* args.tool the handler.                                                  *)
(***************************************************************************)
CompileHandlers == {"simplicity_compile_source", "simplicity_compile_file"}

HandlerSources == Sources \cup {"blank", "toplet"}

\* the text of a source, for the validator
TextOf(content) ==
    CASE content = "good" -> ExampleMinimal
      [] content = "warn" ->
           SourceText(<<[kind |-> "main", jet |-> ""], [kind |-> "witness", jet |-> ""]>>)
      [] content = "bad" ->
           SourceText(<<[kind |-> "main", jet |-> ""], [kind |-> "jet", jet |-> "add_32"]>>)
      [] content = "toplet" ->
           SourceText(<<[kind |-> "top_let", jet |-> ""], [kind |-> "main", jet |-> ""]>>)
      [] OTHER -> <<>>

\* an error message of the gateway, as suggestFix reads it: none of the
\* gateway's messages holds a text suggestFix looks for
FragmentsOf(msg) == <<"jet exists">>

\* a handler that compiles whatever the validator said
SourceGateOpen(validation) == FALSE

\* if (!validation.valid) return ...
SourceGate(validation) == ~validation.valid

ValidationFailed(validation) ==
    [success |-> FALSE, error |-> "Syntax validation failed", validation |-> validation,
     tip |-> "Fix validation errors before compiling. Use simplicity_generate_example for working patterns."]

\* the response of either handler to the result of the compilation
CompileResponse(result, validation) ==
    IF ~result.success /\ Truthy(result, "error")
    THEN TextResponse(
            SetField(SetField(SetField(result, "validation", validation),
                              "suggestions", SuggestFix(FragmentsOf(result.error))),
                     "tip", "Use simplicity_get_features to see what simc supports"))
    ELSE TextResponse(SetField(result, "validation_warnings", validation.warnings))

\* await readFile(file_path, 'utf-8') on a file that exists
HandlerReadOutcomes == {"ok", "EACCES", "EISDIR"}

HandlerReadError(o, path) ==
    IF o = "EISDIR" THEN "EISDIR: illegal operation on a directory, read"
    ELSE "EACCES: permission denied, open '" \o path \o "'"

\* the handler, from the validation on, up to the first await of the
\* gateway method it calls
HandlerCompile(p, tool, a, source) ==
    LET validation == ValidateSyntax(source)
        check == FileCheck(a.path, Exists(disk, a.path))
        l == [InitLoc EXCEPT !.path = a.path, !.validation = validation]
    IN  /\ args' = [args EXCEPT ![p] = a]
        /\ calls' = [calls EXCEPT ![p] = <<>>]
        /\ raised' = [raised EXCEPT ![p] = {}]
        /\ IF tool = "simplicity_compile_source"
           THEN /\ op' = [op EXCEPT ![p] = "compileSource"]
                /\ meth' = [meth EXCEPT ![p] = "compileSource"]
                /\ IF SourceGate(validation)
                   THEN /\ pc' = [pc EXCEPT ![p] = "responded"]
                        /\ ret' = [ret EXCEPT ![p] = TextResponse(ValidationFailed(validation))]
                        /\ loc' = [loc EXCEPT ![p] = l]
                   ELSE /\ pc' = [pc EXCEPT ![p] = "probe"]
                        /\ ret' = [ret EXCEPT ![p] = None]
                        /\ loc' = [loc EXCEPT ![p] = [l EXCEPT !.ran = "compileSource"]]
           ELSE /\ op' = [op EXCEPT ![p] = "compileFile"]
                /\ meth' = [meth EXCEPT ![p] = "compileFile"]
                /\ loc' = [loc EXCEPT ![p] = [l EXCEPT !.ran = "compileFile"]]
                /\ IF check = None
                   THEN /\ pc' = [pc EXCEPT ![p] = "probe"]
                        /\ ret' = [ret EXCEPT ![p] = None]
                   ELSE /\ pc' = [pc EXCEPT ![p] = "done"]
                        /\ ret' = [ret EXCEPT ![p] = check]

StartCompileSourceTool(p) ==
    /\ pc[p] = "idle"
    /\ \E src \in HandlerSources :
         HandlerCompile(p, "simplicity_compile_source",
                        [InitArgs EXCEPT !.tool = "simplicity_compile_source", !.source = src],
                        TextOf(src))
    /\ UNCHANGED <<avail, disk, clock>>

\* simplicity_compile_file up to its first await: readFile when the file
\* exists, else the validation of '' and compileFile
StartCompileFileTool(p) ==
    /\ pc[p] = "idle"
    /\ \E path \in UserPaths :
         LET a == [InitArgs EXCEPT !.tool = "simplicity_compile_file", !.path = path] IN
         IF Exists(disk, path)
         THEN /\ pc' = [pc EXCEPT ![p] = "h_read"]
              /\ op' = [op EXCEPT ![p] = "compileFile"]
              /\ meth' = [meth EXCEPT ![p] = "compileFile"]
              /\ args' = [args EXCEPT ![p] = a]
              /\ loc' = [loc EXCEPT ![p] = [InitLoc EXCEPT !.path = path]]
              /\ calls' = [calls EXCEPT ![p] = <<>>]
              /\ raised' = [raised EXCEPT ![p] = {}]
              /\ ret' = [ret EXCEPT ![p] = None]
         ELSE HandlerCompile(p, "simplicity_compile_file", a, <<>>)
    /\ UNCHANGED <<avail, disk, clock>>

\* readFile settles: the handler validates what it read and calls
\* compileFile, or the rejection leaves the handler
HandlerRead(p) ==
    /\ pc[p] = "h_read"
    /\ \E o \in HandlerReadOutcomes :
         IF o = "ok"
         THEN HandlerCompile(p, "simplicity_compile_file", args[p],
                             TextOf(ReadFile(disk, args[p].path)))
         ELSE /\ pc' = [pc EXCEPT ![p] = "responded"]
              /\ ret' = [ret EXCEPT ![p] = ErrorResponse(HandlerReadError(o, args[p].path))]
              /\ raised' = [raised EXCEPT ![p] = @ \cup {HandlerReadError(o, args[p].path)}]
              /\ UNCHANGED <<op, meth, args, loc, calls>>
    /\ UNCHANGED <<avail, disk, clock>>

\* the gateway method has returned: the handler builds its response
HandlerRespond(p) ==
    /\ pc[p] = "done"
    /\ args[p].tool \in CompileHandlers
    /\ pc' = [pc EXCEPT ![p] = "responded"]
    /\ ret' = [ret EXCEPT ![p] = CompileResponse(ret[p], loc[p].validation)]
    /\ UNCHANGED <<avail, disk, clock, op, meth, args, loc, calls, raised>>

HandlersInit ==
    /\ avail \in {a \in [Binaries -> BOOLEAN] : a["halSimplicityPath"] /\ a["halSignerPath"]}
    /\ disk = [n \in TmpNames |-> Absent]
    /\ clock = 0
    /\ ProcInit

HandlersNext ==
    \/ EnvChange("simcPath")
    \/ StartCompileSourceTool(1)
    \/ StartCompileFileTool(1)
    \/ HandlerRead(1)
    \/ CfExists(1)
    \/ Probe(1)
    \/ Exec(1)
    \/ CsWrite(1)
    \/ CsUnlink(1)
    \/ CsUnlink2(1)
    \/ HandlerRespond(1)

SpecHandlers == HandlersInit /\ [][HandlersNext]_vars

Done(p, o) == pc[p] = "done" /\ op[p] = o

CallIdx(p) == DOMAIN calls[p]

FaucetCalled(p) == \E i \in CallIdx(p) : calls[p][i].kind = "http"

InspectorCalled(p) ==
    \E i \in CallIdx(p) : calls[p][i].by = "getProgramInfo" \/ calls[p][i].bin = "halSimplicityPath"

CompileFailedIn(p) == loc[p].cres # None /\ ~loc[p].cres.success

CompileSucceededIn(p) == loc[p].cres # None /\ loc[p].cres.success

\* C1: when compileFile returns success=false, contract_deploy answers
\* {success:false, step:"compile", error:<the compiler's error>} and has
\* called neither the inspector nor the faucet.
C1_CompileFailureShortCircuits ==
    \A p \in Procs :
        (Done(p, "contract_deploy") /\ CompileFailedIn(p)) =>
            /\ ret[p] = [success |-> FALSE, step |-> "compile", error |-> loc[p].cres.error]
            /\ ~InspectorCalled(p)
            /\ ~FaucetCalled(p)

C1_Witness ==
    \E p \in Procs :
        /\ Done(p, "contract_deploy") /\ CompileFailedIn(p)
        /\ args[p].auto_fund
        /\ Len(calls[p]) = 2 /\ calls[p][2].kind = "exec"
        /\ ret[p].step = "compile"

\* C2: when compilation succeeded and getProgramInfo returns an error,
\* contract_deploy answers success=false, step="get_address", with the
\* program as compileFile returned it, and the faucet is not called,
\* whatever auto_fund is.
C2_InfoFailureKeepsProgram ==
    \A p \in Procs :
        (Done(p, "contract_deploy") /\ CompileSucceededIn(p)
            /\ loc[p].info # None /\ HasField(loc[p].info, "error")) =>
            /\ ret[p] = [success |-> FALSE, step |-> "get_address",
                         program |-> loc[p].cres.program, error |-> loc[p].info.error]
            /\ ~FaucetCalled(p)

C2_Witness ==
    \E p \in Procs :
        /\ Done(p, "contract_deploy") /\ CompileSucceededIn(p)
        /\ loc[p].info # None /\ HasField(loc[p].info, "error")
        /\ args[p].auto_fund
        /\ loc[p].cres.program = "P1"
        /\ ret[p].step = "get_address"

AllFaucetAttemptsFailed(p) ==
    /\ FaucetCalled(p)
    /\ \A i \in CallIdx(p) : calls[p][i].kind = "http" => ~calls[p][i].ok

\* C3: with auto_fund, when compilation and address derivation succeeded
\* and every faucet attempt failed, contract_deploy still answers
\* success=true with the address and the program, and a funding
\* sub-result whose success is false.
C3_FundingFailureKeepsSuccess ==
    \A p \in Procs :
        (Done(p, "contract_deploy") /\ args[p].auto_fund /\ AllFaucetAttemptsFailed(p)) =>
            /\ ret[p].success = TRUE
            /\ HasField(ret[p], "address") /\ ret[p].address = loc[p].info.address
            /\ ret[p].address # ""
            /\ HasField(ret[p], "program") /\ ret[p].program = loc[p].cres.program
            /\ ret[p].contract_file = args[p].path
            /\ HasField(ret[p], "funding")
            /\ ret[p].funding.success = FALSE
            /\ HasField(ret[p].funding, "error")

C3_Witness ==
    \E p \in Procs :
        /\ Done(p, "contract_deploy") /\ args[p].auto_fund /\ AllFaucetAttemptsFailed(p)
        /\ ret[p].address = "tex1qabc"
        /\ ~ret[p].funding.success

\* C4: when compileSource has returned, the temporary file the call
\* created is no longer on disk, whichever way the call ended.
C4_TmpFileRemoved ==
    \A p \in Procs :
        (Done(p, "compileSource") /\ loc[p].created) => ~Exists(disk, loc[p].tmpFile)

Running(p, o) == op[p] = o /\ pc[p] \notin {"idle", "done"}

\* C5: two compileSource invocations that run concurrently use different
\* temporary file names, and a program compileSource returns is the
\* compilation of the source that very call was given.
C5_ConcurrentCompilesDoNotInterfere ==
    /\ \A p, q \in Procs :
           (p # q /\ Running(p, "compileSource") /\ Running(q, "compileSource")
               /\ loc[p].tmpFile # "" /\ loc[q].tmpFile # "") =>
               loc[p].tmpFile # loc[q].tmpFile
    /\ \A p \in Procs :
           (Done(p, "compileSource") /\ HasField(ret[p], "program")) =>
               ret[p].program = Trim(SimcStdout(args[p].source))

FirstProbeFailed(p) ==
    /\ calls[p] # <<>>
    /\ calls[p][1].kind = "probe"
    /\ ~calls[p][1].ok

InstallGuidance(p) == Fail(Guidance(op[p]))

\* C6 as stated: a compile call that answers with the installation
\* guidance has spawned no subprocess at all, the probe included.
C6_NoSpawnAtAll ==
    \A p \in Procs :
        (pc[p] = "done" /\ op[p] \in CompileMethods /\ ret[p] = InstallGuidance(p)) =>
            Len(calls[p]) = 0

\* C6 as amended: when the probe finds the compiler not resolvable,
\* compileFile and compileSource answer success=false with the
\* installation guidance, the probe (`which`) is the only subprocess the
\* call spawned, and the compiler is never executed.
C6_OnlyTheProbeIsSpawned ==
    \A p \in Procs :
        (pc[p] = "done" /\ op[p] \in CompileMethods) =>
            /\ FirstProbeFailed(p) =>
                  /\ ret[p] = InstallGuidance(p)
                  /\ calls[p] = <<[kind |-> "probe", bin |-> "simcPath", by |-> op[p], ok |-> FALSE]>>
            /\ ret[p] = InstallGuidance(p) =>
                  /\ calls[p] # <<>>
                  /\ \A i \in CallIdx(p) : calls[p][i].kind = "probe"
                  /\ ~calls[p][Len(calls[p])].ok

C6_Witness ==
    \E p, q \in Procs :
        /\ Done(p, "compileSource") /\ FirstProbeFailed(p) /\ ret[p] = InstallGuidance(p)
        /\ Done(q, "compileFile") /\ FirstProbeFailed(q) /\ ret[q] = InstallGuidance(q)

\* C7: compileFile tests file existence first, compiler availability
\* second, and runs the compiler last: for a path that does not exist
\* the answer is "File not found" and nothing is spawned, whatever the
\* compiler's availability; the compiler runs only right after a probe of
\* the same call that answered yes, on a file that was there.
C7_CompileFileCheckOrder ==
    \A p \in Procs :
        /\ (Done(p, "compileFile") /\ args[p].path \notin DOMAIN UserFiles) =>
              /\ ret[p] = Fail("File not found: " \o args[p].path)
              /\ calls[p] = <<>>
        /\ (op[p] = "compileFile" /\ calls[p] # <<>>) =>
              /\ args[p].path \in DOMAIN UserFiles
              /\ calls[p][1].kind = "probe"
        /\ \A i \in CallIdx(p) :
              (calls[p][i].kind = "exec" /\ calls[p][i].by = "compileFile") =>
                  /\ i > 1
                  /\ calls[p][i - 1] = [kind |-> "probe", bin |-> "simcPath",
                                        by |-> "compileFile", ok |-> TRUE]

C7_Witness ==
    \E p, q \in Procs :
        /\ Done(p, "compileFile") /\ args[p].path = "missing.simf"
        /\ ~avail["simcPath"]
        /\ ret[p].error = "File not found: missing.simf"
        /\ Done(q, "compileFile") /\ Len(calls[q]) = 2 /\ calls[q][2].kind = "exec"

SomeProbeFailed(p) == \E i \in CallIdx(p) : calls[p][i].kind = "probe" /\ ~calls[p][i].ok

\* C8: no gateway operation throws: whatever the probe, the external
\* process and the filesystem do, the operation returns a result object,
\* and after a failure its error field holds the failure's message (the
\* installation guidance when the failure is the probe's).
C8_GatewayNeverThrows ==
    \A p \in Procs :
        (pc[p] = "done" /\ op[p] \in GatewayMethods) =>
            /\ ret[p] # None
            /\ ~HasField(ret[p], "threw")
            /\ (raised[p] # {} \/ SomeProbeFailed(p)) =>
                  /\ HasField(ret[p], "error")
                  /\ ret[p].error \in
                        raised[p] \cup (IF SomeProbeFailed(p) THEN {Guidance(op[p])} ELSE {})
                  /\ HasField(ret[p], "success") => ~ret[p].success

C8_Witness ==
    \E p \in Procs :
        /\ Done(p, "compileSource")
        /\ loc[p].cres # None /\ loc[p].cres.success
        /\ ret[p] = Fail("EPERM: operation not permitted, unlink")

\* C9: a CompileResult with success=true has a program and no error; one
\* with success=false has an error and no program.
C9_CompileResultShape ==
    \A p \in Procs :
        (pc[p] = "done" /\ op[p] \in CompileMethods) =>
            /\ HasField(ret[p], "success")
            /\ ret[p].success => (HasField(ret[p], "program") /\ ~HasField(ret[p], "error"))
            /\ ~ret[p].success => (HasField(ret[p], "error") /\ ~HasField(ret[p], "program"))

C9_Witness ==
    \E p, q \in Procs :
        /\ Done(p, "compileSource") /\ ret[p].success /\ ret[p].program = "P2"
        /\ Done(q, "compileFile") /\ ~ret[q].success
        /\ Len(calls[q]) = 2

BinaryClass(m) ==
    CASE m \in {"createPSET", "updatePSETInput", "finalizePSET", "extractTransaction"} -> "halSignerPath"
      [] m \in {"getProgramInfo", "decodeProgram"} -> "halSimplicityPath"
      [] m \in {"compileFile", "compileSource"} -> "simcPath"

MethodsOf(o) == IF o = "compileSource" THEN {"compileSource", "compileFile"} ELSE {o}

ToolNameOf(m) ==
    IF m \in {"getProgramInfo", "decodeProgram"} THEN "hal-simplicity" ELSE "hal-simplicity-signer"

InstallHint(m) ==
    CASE m \in {"getProgramInfo", "decodeProgram"} ->
           "nums-key branch from https://github.com/apoelstra/hal-simplicity"
      [] m = "createPSET" -> "pset-signer branch from https://github.com/apoelstra/hal-simplicity"
      [] OTHER -> "pset-signer branch"

\* C11: each PSET operation and each inspector operation probes its own
\* binary first; its command runs only right after that probe of the same
\* call answered yes; when the probe answers no, the operation returns an
\* error that names the missing tool and how to install it, and the
\* command is not executed in that call.
C11_ProbeBeforeCommand ==
    \A p \in Procs :
        op[p] \in HalMethods \cup SignerMethods =>
            /\ (pc[p] = "done" \/ calls[p] # <<>>) =>
                  /\ calls[p] # <<>>
                  /\ calls[p][1].kind = "probe" /\ calls[p][1].by = op[p]
            /\ \A i \in CallIdx(p) :
                  calls[p][i].kind = "exec" =>
                      /\ i = 2
                      /\ calls[p][1].ok
            /\ (pc[p] = "done" /\ FirstProbeFailed(p)) =>
                  /\ Len(calls[p]) = 1
                  /\ HasField(ret[p], "error")
                  /\ ret[p].error =
                        ToolNameOf(op[p]) \o " not found. Please install " \o InstallHint(op[p])
                  /\ HasField(ret[p], "success") => ~ret[p].success

C11_Witness ==
    \E p \in Procs :
        /\ Done(p, "extractTransaction") /\ FirstProbeFailed(p)
        /\ ret[p] = Fail("hal-simplicity-signer not found. Please install pset-signer branch")
        /\ avail["halSignerPath"]

NewCall(p) == calls'[p][Len(calls'[p])]

ProbeLogged(p) == Len(calls'[p]) = Len(calls[p]) + 1 /\ NewCall(p).kind = "probe"

\* C12: availability is never cached.  Every probe answers with the
\* binary's state at the moment of that probe; every gateway operation
\* that gets as far as its binary probes it, compileFile inside
\* compileSource included; every checkToolsInstallation call probes the
\* three binaries once each and reports exactly those three answers.
C12_AvailabilityNeverCached ==
    /\ [][\A p \in Procs : ProbeLogged(p) => NewCall(p).ok = avail[NewCall(p).bin]]_vars
    /\ [](\A p \in Procs :
            /\ (pc[p] = "done" /\ op[p] \in GatewayMethods) =>
                  \/ calls[p] # <<>> /\ calls[p][1].kind = "probe"
                  \/ op[p] = "compileFile" /\ ret[p] = Fail("File not found: " \o args[p].path)
            /\ \A i \in CallIdx(p) :
                  (calls[p][i].kind = "exec" /\ op[p] \in GatewayMethods) =>
                      /\ i > 1
                      /\ calls[p][i - 1].kind = "probe" /\ calls[p][i - 1].by = calls[p][i].by
            /\ Done(p, "checkToolsInstallation") =>
                  /\ Len(calls[p]) = 3
                  /\ \A i \in 1..3 :
                        /\ calls[p][i].kind = "probe"
                        /\ calls[p][i].bin = <<"simcPath", "halSimplicityPath", "halSignerPath">>[i]
                  /\ ret[p].simc_installed = calls[p][1].ok
                  /\ ret[p].hal_simplicity_installed = calls[p][2].ok
                  /\ ret[p].hal_signer_installed = calls[p][3].ok)

C12_Witness ==
    \E p \in Procs :
        /\ Done(p, "compileSource")
        /\ calls[p] = <<[kind |-> "probe", bin |-> "simcPath", by |-> "compileSource", ok |-> TRUE],
                        [kind |-> "probe", bin |-> "simcPath", by |-> "compileFile", ok |-> FALSE]>>
        /\ ret[p] = InstallGuidance(p)

StepRank(c) ==
    CASE c.by = "compileFile" -> 1
      [] c.by = "getProgramInfo" -> 2
      [] c.by = "requestFunds" -> 3

ExecCount(p, m) ==
    Cardinality({i \in CallIdx(p) : calls[p][i].kind = "exec" /\ calls[p][i].by = m})

ProbeCount(p, m) ==
    Cardinality({i \in CallIdx(p) : calls[p][i].kind = "probe" /\ calls[p][i].by = m})

\* C13: the external calls of one contract_deploy come in the order
\* compile, getProgramInfo, faucet; the first call of a step directly
\* follows the successful command of the step before it; the compiler and
\* the inspector each run at most once; only the faucet request is
\* repeated, after a failed attempt and at most three times in all.
C13_DeployStepsInOrder ==
    \A p \in Procs :
        op[p] = "contract_deploy" =>
            /\ \A i, j \in CallIdx(p) : i < j => StepRank(calls[p][i]) <= StepRank(calls[p][j])
            /\ \A m \in {"compileFile", "getProgramInfo"} :
                  ExecCount(p, m) <= 1 /\ ProbeCount(p, m) <= 1
            /\ \A i \in CallIdx(p) :
                  /\ (i > 1 /\ StepRank(calls[p][i]) > StepRank(calls[p][i - 1])) =>
                        /\ StepRank(calls[p][i]) = StepRank(calls[p][i - 1]) + 1
                        /\ calls[p][i - 1].kind = "exec" /\ calls[p][i - 1].ok
                  /\ (i > 1 /\ calls[p][i].kind = "http" /\ calls[p][i - 1].kind = "http") =>
                        ~calls[p][i - 1].ok
                  /\ calls[p][i].kind = "http" =>
                        /\ args[p].auto_fund
                        /\ loc[p].cres.success /\ Truthy(loc[p].info, "address")
                  /\ calls[p][i].by = "getProgramInfo" => loc[p].cres.success
            /\ Cardinality({i \in CallIdx(p) : calls[p][i].kind = "http"}) <= 3
            /\ (calls[p] # <<>>) => StepRank(calls[p][1]) = 1

C13_Witness ==
    \E p \in Procs :
        /\ Done(p, "contract_deploy")
        /\ Len(calls[p]) = 6
        /\ calls[p][2] = [kind |-> "exec", bin |-> "simcPath", by |-> "compileFile", ok |-> TRUE]
        /\ calls[p][4] = [kind |-> "exec", bin |-> "halSimplicityPath", by |-> "getProgramInfo", ok |-> TRUE]
        /\ calls[p][5].kind = "http" /\ ~calls[p][5].ok
        /\ calls[p][6].kind = "http" /\ calls[p][6].ok

HandlerStep(p) ==
    \/ CfExists(p) \/ Probe(p) \/ Exec(p)
    \/ CsWrite(p) \/ CsUnlink(p) \/ CsUnlink2(p)
    \/ CheckProbe(p) \/ AiCargo(p) \/ AiInstall(p)

\* C14: an invocation that has not returned can always take its next
\* step, even when the subprocess it awaits never exits: every
\* external-process call is bounded by a timeout that ends the wait.
C14_EveryCallIsBounded ==
    \A p \in Procs : pc[p] \notin {"idle", "done"} => ENABLED HandlerStep(p)

CalledTool(p, name) == pc[p] = "done" /\ op[p] = "call_tool" /\ args[p].tool = name

IsResponse(r) == HasField(r, "content") \/ (HasField(r, "isError") /\ r.isError)

RegisteredTools == {"elements_get_block", "contract_spend"}

\* C15: no exception leaves the call-tool request handler: for every
\* tool name, known or not, it returns a response, the handler's result
\* or a text response with isError=true; for a name that is not a
\* registered tool the response is the "unknown tool" error and no
\* function is run.
C15_NoExceptionCrossesBoundary ==
    \A p \in Procs :
        (pc[p] = "done" /\ op[p] = "call_tool") =>
            /\ ~HasField(ret[p], "threw")
            /\ IsResponse(ret[p])
            /\ args[p].tool \notin RegisteredTools =>
                  /\ loc[p].ran = ""
                  /\ HasField(ret[p], "isError")
                  /\ ret[p].text = "Error: Unknown tool: " \o args[p].tool

\* C16: contract_spend tests that the witness file exists before it
\* reads it and answers "Witness file not found" without reading when it
\* does not; a file that cannot be read or parsed gives success=false
\* with the failure's message; otherwise the answer has the parsed
\* witness, the inputs and the three instructions in order.  No external
\* process is probed or run.
C16_SpendIsLocal ==
    \A p \in Procs :
        /\ (op[p] = "call_tool" /\ args[p].tool = "contract_spend") =>
              /\ calls[p] = <<>>
              /\ pc[p] = "spend_read" => loc[p].existed = "yes"
              /\ loc[p].content # Absent => loc[p].existed = "yes"
        /\ CalledTool(p, "contract_spend") =>
              /\ HasField(ret[p], "content")
              /\ loc[p].existed \in {"yes", "no"}
              /\ loc[p].existed = "no" =>
                    /\ ret[p].content =
                          [success |-> FALSE,
                           error |-> "Witness file not found: " \o args[p].witness_file]
                    /\ loc[p].content = Absent
              /\ loc[p].existed = "yes" => loc[p].content # Absent
              /\ loc[p].content \in {"<unread>", "", "{sig"} =>
                    /\ DOMAIN ret[p].content = {"success", "error"}
                    /\ ~ret[p].content.success
                    /\ ret[p].content.error \in raised[p]
              /\ loc[p].content = "{\"sig\":\"00\"}" => ret[p].content.witness = [sig |-> "00"]
              /\ loc[p].content = "[]" => ret[p].content.witness = <<>>
              /\ loc[p].content \in {"{\"sig\":\"00\"}", "[]"} =>
                    /\ ret[p].content.success
                    /\ raised[p] = {}
                    /\ ret[p].content.program = args[p].program
                    /\ ret[p].content.instructions =
                          <<"1. Use hal-simplicity to create spending transaction",
                            "2. Sign the transaction",
                            "3. Broadcast with elements-cli sendrawtransaction">>
                    /\ HasField(ret[p].content, "destination") = HasField(args[p], "destination")
                    /\ HasField(ret[p].content, "utxo") =
                          (HasField(args[p], "utxo_txid") /\ args[p].utxo_txid # "")
                    /\ HasField(ret[p].content, "utxo") =>
                          ret[p].content.utxo.txid = args[p].utxo_txid

C16_Witness ==
    \E p \in Procs :
        /\ CalledTool(p, "contract_spend")
        /\ loc[p].content = "{\"sig\":\"00\"}"
        /\ ret[p].content.success
        /\ ret[p].content.witness = [sig |-> "00"]
        /\ HasField(ret[p].content, "utxo")
        /\ ret[p].content.utxo = [txid |-> "tx1", vout |-> "0"]
        /\ ~Exists(disk, args[p].witness_file)

\* C17: validateSyntax answers valid exactly when its list of errors is
\* empty; warnings and suggestions, however many, do not change valid.
C17_ValidIffNoErrors ==
    \A p \in Procs :
        Done(p, "validateSyntax") =>
            /\ ret[p].valid = (ret[p].errors = <<>>)
            /\ (ret[p].errors = <<>> /\ ret[p].warnings # <<>>) => ret[p].valid

C17_Witness ==
    \E p \in Procs :
        /\ Done(p, "validateSyntax")
        /\ ret[p].valid
        /\ Len(ret[p].warnings) >= 2
        /\ ret[p].suggestions # <<>>

Matching(checks) ==
    LET hits == SelectSeq(checks, LAMBDA c : c.hit) IN [i \in DOMAIN hits |-> hits[i].msg]

DeniedJets ==
    <<"gt_32", "ge_32", "and", "or", "not", "sha256", "sha256_32", "verify",
      "current_block_height", "check_sig">>

ExpectedErrors(t) ==
    Matching(<<[hit |-> TopLevelLet(t), msg |-> ErrTopLevelLet],
               [hit |-> HasIf(t), msg |-> ErrIf],
               [hit |-> HasMatch(t), msg |-> ErrMatch],
               [hit |-> ~IncludesFnMain(t), msg |-> ErrNoMain]>>)

ExpectedWarnings(t) ==
    Matching(<<[hit |-> IncludesWitness(t), msg |-> WarnWitness]>>
             \o [i \in DOMAIN DeniedJets |->
                    [hit |-> IncludesJet(t, DeniedJets[i]), msg |-> WarnJet(DeniedJets[i])]]
             \o <<[hit |-> AssignmentFromCall(t), msg |-> WarnAssignment],
                  [hit |-> HasCustomFn(t), msg |-> WarnCustomFn]>>)

\* C18: validateSyntax evaluates every check: errors is the list of the
\* messages of the error checks whose pattern matches, in the order
\* top-level let, if, match, missing fn main(); warnings is the list of
\* the messages of the matching warning checks, in the order witness,
\* each listed jet, assignment from a call, custom function.
C18_AllChecksInOrder ==
    \A p \in Procs :
        Done(p, "validateSyntax") =>
            /\ ret[p].errors = ExpectedErrors(args[p].source)
            /\ ret[p].warnings = ExpectedWarnings(args[p].source)

C18_Witness ==
    \E p \in Procs :
        /\ Done(p, "validateSyntax")
        /\ ret[p].errors = <<ErrTopLevelLet, ErrNoMain>>
        /\ ret[p].warnings = <<WarnWitness, WarnAssignment>>

MainLine == [kind |-> "main", jet |-> ""]

\* the modelled lines that show the construct of an entry of notSupported
ConstructLines(entry) ==
    CASE entry = "Top-level let declarations" -> {[kind |-> "top_let", jet |-> ""]}
      [] entry = "witness keyword (not yet available)" -> {[kind |-> "witness", jet |-> ""]}
      [] entry = "if/else conditional statements" -> {[kind |-> "if", jet |-> ""]}
      [] entry = "match pattern matching" -> {[kind |-> "match", jet |-> ""]}
      [] entry = "Custom function definitions (limited)" -> {[kind |-> "custom_fn", jet |-> ""]}
      [] entry = "Tuple destructuring" -> {[kind |-> "tuple", jet |-> ""]}
      [] entry = "Hash functions (sha256, etc)" ->
           {[kind |-> "jet", jet |-> "sha256"], [kind |-> "jet", jet |-> "sha256_32"]}
      [] entry = "Blockchain context (current_block_height, etc)" ->
           {[kind |-> "jet", jet |-> "current_block_height"]}
      [] entry = "Signature verification (check_sig)" -> {[kind |-> "jet", jet |-> "check_sig"]}

\* the texts made of a main function and of lines showing that construct
OnlySources(entry) ==
    {ls \in LineSeqs :
        /\ \E i \in DOMAIN ls : ls[i] \in ConstructLines(entry)
        /\ \A i \in DOMAIN ls : ls[i] \in ConstructLines(entry) \cup {MainLine}}

Without(ls, entry) == SelectSeq(ls, LAMBDA l : l \notin ConstructLines(entry))

OnlyTexts(entry) == {SourceText(ls) : ls \in OnlySources(entry)}

\* C19: for every entry of getAvailableFeatures().notSupported there is
\* a source with only that construct that validateSyntax finds invalid
\* because of the construct: the source is invalid, and valid once the
\* construct is taken out.  Stated at each validated source, for the
\* entries whose construct, and nothing else, that source has.
C19_CatalogMatchesValidator ==
    \A p \in Procs :
        Done(p, "validateSyntax") =>
            \A k \in DOMAIN NotSupported :
                args[p].source \in OnlyTexts(NotSupported[k]) =>
                    \E ls \in OnlySources(NotSupported[k]) :
                        /\ ~ValidateSyntax(SourceText(ls)).valid
                        /\ ValidateSyntax(SourceText(Without(ls, NotSupported[k]))).valid

UsesJet(t, x) ==
    \E i \in DOMAIN t :
        /\ i + 3 <= Len(t)
        /\ t[i] = "jet" /\ t[i + 1] = ":" /\ t[i + 2] = ":" /\ t[i + 3] = x

Elems(seq) == {seq[i] : i \in DOMAIN seq}

\* C20: a source that uses jet::X gets the warning about jet::X exactly
\* when jet::X is not one of jets.working (eq_32, lt_32, le_32): the jets
\* of jets.notTested are warned about, the three working jets never.
C20_JetsOutsideAllowListWarned ==
    \A p \in Procs :
        Done(p, "validateSyntax") =>
            \A x \in ModelJets :
                UsesJet(args[p].source, x) =>
                    ((WarnJet(x) \in Elems(ret[p].warnings)) <=>
                        (("jet::" \o x) \notin Elems(JetsWorking)))

\* the signatures a message matches
MatchedSignatures(msg) == {k \in 1..Len(SignatureOrder) : SignatureMatches(msg, SignatureOrder[k])}

\* the position in a list at which the two suggestions of a signature stand
PlaceOf(list, sig) ==
    {i \in 1..(Len(list) - 1) : <<list[i], list[i + 1]>> = SuggestionsOf(sig)}

\* the requests an invocation has sent to the faucet, in order
FaucetRequests(p) == SelectSeq(calls[p], LAMBDA c : c.kind = "http" /\ c.bin = "faucet")

\* an invocation of a compile handler that has got as far as its validation
Validated(p, tool) == args[p].tool = tool /\ HasField(loc[p].validation, "valid")

\* no temporary file of compileSource exists
NoTmpFile == \A n \in TmpNames : ~Exists(disk, n)

\* C21: the example of each pattern minimal, comparison, assertion is
\* valid for validateSyntax, with no error; for any other pattern
\* generateExample returns the minimal example, which is valid too.
C21_ExamplesAreValid ==
    \A p \in Procs :
        Done(p, "generateExample") =>
            /\ HasField(loc[p].example, "text")
            /\ ~HasField(ret[p], "threw")
            /\ ret[p].valid /\ ret[p].errors = <<>>
            /\ args[p].pattern \notin {"minimal", "comparison", "assertion"} =>
                  loc[p].example = GenerateExample("minimal")

\* C22: suggestFix returns a non-empty list for every error message: the
\* suggestions of every signature that matches, all of them when several
\* match and in the order of the signatures, and the one generic
\* suggestion exactly when no signature matches.
C22_SuggestionsForEveryMatch ==
    \A p \in Procs :
        Done(p, "suggestFix") =>
            LET msg == args[p].source
                matched == MatchedSignatures(msg)
            IN  /\ Len(ret[p]) > 0
                /\ \A k \in matched : PlaceOf(ret[p], SignatureOrder[k]) # {}
                /\ \A k, l \in matched :
                      k < l => \A i \in PlaceOf(ret[p], SignatureOrder[k]),
                                  j \in PlaceOf(ret[p], SignatureOrder[l]) : i < j
                /\ (GenericSuggestion \in Elems(ret[p])) <=> (matched = {})
                /\ Len(ret[p]) = IF matched = {} THEN 1 ELSE 2 * Cardinality(matched)

C22_Witness ==
    \E p \in Procs :
        /\ Done(p, "suggestFix")
        /\ MatchedSignatures(args[p].source) = {1, 2, 3, 4}
        /\ Len(ret[p]) = 8

\* C23: getProgramInfo parses tolerantly: a line of the output with neither
\* 'address:' nor 'program_hash:' is ignored and causes no error, an output
\* with no known key gives an empty object with no error field, and error
\* is set only when the binary is unavailable or its invocation failed.
C23_InfoParsingIsTolerant ==
    \A p \in Procs :
        Done(p, "getProgramInfo") =>
            LET last == calls[p][Len(calls[p])] IN
            /\ HasField(ret[p], "error") <=> ~last.ok
            /\ (last.kind = "exec" /\ last.ok) =>
                  LET out == loc[p].stdout
                      has(key) == \E i \in 1..Len(out) : IncludesKey(out[i], key)
                  IN  /\ DOMAIN ret[p] \subseteq {"address", "program_hash"}
                      /\ \A key \in DOMAIN ret[p] : has(key)
                      /\ (~has("address") /\ ~has("program_hash")) => DOMAIN ret[p] = {}

C23_Witness ==
    \E p \in Procs :
        /\ Done(p, "getProgramInfo")
        /\ calls[p][Len(calls[p])].kind = "exec"
        /\ calls[p][Len(calls[p])].ok
        /\ loc[p].stdout = << <<"cmr", " c1">>, <<"program_hash", " h1">>, <<"">> >>
        /\ DOMAIN ret[p] = {"program_hash"}
        /\ ret[p].program_hash = "h1"

\* C24: requestFundsWithRetry sends its requests one at a time, at most
\* maxRetries of them; it returns the first successful response without a
\* further request; a failed attempt is followed by another while fewer
\* than maxRetries were made; when all fail it ends with success = false
\* and an error that carries the error of the last attempt.
C24_RetryIsBounded ==
    \A p \in Procs :
        op[p] = "requestFundsWithRetry" =>
            LET reqs == FaucetRequests(p)
                n == args[p].maxRetries
            IN  /\ Len(reqs) <= n
                /\ \A i \in 1..(Len(reqs) - 1) : ~reqs[i].ok
                /\ (Len(reqs) > 0 /\ reqs[Len(reqs)].ok) =>
                      /\ pc[p] = "done"
                      /\ ret[p] = RequestFunds(reqs[Len(reqs)].out)
                /\ (Len(reqs) > 0 /\ ~reqs[Len(reqs)].ok /\ Len(reqs) < n) =>
                      /\ pc[p] = "fund"
                      /\ ENABLED Fund(p)
                /\ (Len(reqs) > 0 /\ ~reqs[Len(reqs)].ok /\ Len(reqs) = n) =>
                      /\ pc[p] = "done"
                      /\ ret[p].success = FALSE
                      /\ ret[p].error = "Failed after " \o ToString(n) \o " attempts. Last error: "
                                          \o LastErrorOf(RequestFunds(reqs[Len(reqs)].out))

C24_Witness ==
    \E p \in Procs :
        /\ Done(p, "requestFundsWithRetry")
        /\ args[p].maxRetries = 3
        /\ Len(FaucetRequests(p)) = 3
        /\ FaucetRequests(p)[2].out = "axios_error"
        /\ FaucetRequests(p)[3].out = "no_txid"
        /\ ret[p].error = "Failed after 3 attempts. Last error: Faucet request sent but no txid found in response"

InspectorSucceeded(p) ==
    \E i \in CallIdx(p) :
        calls[p][i].kind = "exec" /\ calls[p][i].by = "getProgramInfo" /\ calls[p][i].ok

\* the inspector's output has an address line whose value is not blank
AddressPrinted(p) ==
    /\ InspectorSucceeded(p)
    /\ \E i \in 1..Len(loc[p].stdout) :
          IncludesKey(loc[p].stdout[i], "address") /\ Trim(loc[p].stdout[i][2]) # ""

\* C26: contract_deploy calls the faucet if and only if auto_fund is set,
\* the compilation succeeded, getProgramInfo returned no error and a
\* non-empty address was parsed; when getProgramInfo succeeds without an
\* address the response has success = true, no address and no funding
\* field, and no faucet request is made even with auto_fund.
C26_FundingOnlyWithAddress ==
    \A p \in Procs :
        op[p] = "contract_deploy" =>
            /\ FaucetCalled(p) =>
                  /\ args[p].auto_fund
                  /\ CompileSucceededIn(p)
                  /\ ~HasField(loc[p].info, "error")
                  /\ AddressPrinted(p)
            /\ (pc[p] = "done" /\ args[p].auto_fund /\ CompileSucceededIn(p) /\ AddressPrinted(p)) =>
                  FaucetCalled(p) /\ HasField(ret[p], "funding")
            /\ (pc[p] = "done" /\ InspectorSucceeded(p) /\ ~AddressPrinted(p)) =>
                  /\ ret[p].success = TRUE
                  /\ ~Truthy(ret[p], "address")
                  /\ HasField(ret[p], "address") <=> HasField(loc[p].info, "address")
                  /\ ~HasField(ret[p], "funding")
                  /\ ~FaucetCalled(p)

C26_Witness ==
    \E p \in Procs :
        /\ Done(p, "contract_deploy")
        /\ args[p].auto_fund
        /\ InspectorSucceeded(p)
        /\ loc[p].stdout = << <<"cmr", " c1">> >>
        /\ ret[p] = [success |-> TRUE, contract_file |-> args[p].path, program |-> loc[p].program]
        /\ ~FaucetCalled(p)

\* a gateway method, invoked on its own, runs its command in this step
\* while its binary is not installed, the probe having succeeded before
RunsWithoutBinary(p) ==
    /\ pc[p] = "exec"
    /\ op[p] = meth[p]
    /\ op[p] \in {"compileFile"} \cup HalMethods \cup SignerMethods
    /\ calls[p] # <<>>
    /\ calls[p][Len(calls[p])].kind = "probe"
    /\ calls[p][Len(calls[p])].ok
    /\ ~avail[ExecBinary(meth[p])]
    /\ pc'[p] # "exec"

WriteErrors == {WriteError(o) : o \in WriteOutcomes \ {"ok"}}

\* C28: compileSource returns the compile result only if deleting the
\* temporary file succeeds: when compileFile returned success = true but
\* the unlink that follows fails, compileSource returns success = false
\* with the unlink error and without the program; when writing the
\* temporary file fails, the compiler is never invoked.
C28_ResultOnlyAfterUnlink ==
    \A p \in Procs :
        Done(p, "compileSource") =>
            /\ HasField(ret[p], "success")
            /\ (loc[p].cres # None /\ loc[p].err = "") =>
                  ret[p] = loc[p].cres
            /\ (loc[p].cres # None /\ loc[p].err # "") =>
                  /\ loc[p].err \in raised[p]
                  /\ ret[p].success = FALSE
                  /\ ret[p].error = loc[p].err
                  /\ ~HasField(ret[p], "program")
            /\ (HasField(ret[p], "program") \/ ret[p].success) =>
                  /\ loc[p].cres # None
                  /\ loc[p].err = ""
            /\ (raised[p] \cap WriteErrors # {}) =>
                  /\ loc[p].cres = None
                  /\ \A i \in CallIdx(p) : calls[p][i].kind = "probe"
                  /\ ret[p].success = FALSE
                  /\ ret[p].error \in WriteErrors

C28_Witness ==
    \E p \in Procs :
        /\ Done(p, "compileSource")
        /\ loc[p].cres # None
        /\ loc[p].cres.success
        /\ loc[p].cres.program = "P1"
        /\ ret[p] = Fail("EPERM: operation not permitted, unlink")

\* the place of a tool's name in the order simc, hal-simplicity,
\* hal-simplicity-signer
LabelRank(name) ==
    CASE name = "simc" -> 1
      [] name = "hal-simplicity" -> 2
      [] name = "hal-simplicity-signer" -> 3
      [] OTHER -> 0

\* C29: in the result of checkToolsInstallation all_installed equals
\* simc_installed and hal_simplicity_installed and hal_signer_installed,
\* and equals missing_tools being empty; missing_tools holds exactly the
\* names of the unavailable tools in the order simc, hal-simplicity,
\* hal-simplicity-signer; installation_instructions is 'All tools are
\* installed!' exactly when all_installed.
C29_CheckResultIsConsistent ==
    \A p \in Procs :
        Done(p, "checkToolsInstallation") =>
            LET r == ret[p]
                missing == r.missing_tools
            IN  /\ r.all_installed =
                      (r.simc_installed /\ r.hal_simplicity_installed /\ r.hal_signer_installed)
                /\ r.all_installed = (missing = <<>>)
                /\ ("simc" \in Elems(missing)) = ~r.simc_installed
                /\ ("hal-simplicity" \in Elems(missing)) = ~r.hal_simplicity_installed
                /\ ("hal-simplicity-signer" \in Elems(missing)) = ~r.hal_signer_installed
                /\ \A i \in DOMAIN missing : LabelRank(missing[i]) > 0
                /\ \A i, j \in DOMAIN missing : i < j => LabelRank(missing[i]) < LabelRank(missing[j])
                /\ (r.installation_instructions = "All tools are installed!") = r.all_installed

C29_Witness ==
    \E p \in Procs :
        /\ Done(p, "checkToolsInstallation")
        /\ ret[p].missing_tools = <<"simc", "hal-simplicity-signer">>
        /\ ret[p].hal_simplicity_installed
        /\ ~ret[p].all_installed
        /\ ret[p].installation_instructions # "All tools are installed!"

\* the cargo commands an invocation has run, in order
CargoCalls(p) == SelectSeq(calls[p], LAMBDA c : c.bin = "cargo")

\* the tools the first check of autoInstallTools reported missing, among
\* those it knows how to install
Installable(check) ==
    (IF check.simc_installed THEN {} ELSE {"simc"})
        \cup (IF check.hal_simplicity_installed THEN {} ELSE {"hal-simplicity"})

\* the tools whose installation was attempted
Attempted(p) ==
    Elems(loc[p].installedTools)
        \cup {t \in {"simc", "hal-simplicity", "hal-simplicity-signer"} :
                \E i \in DOMAIN loc[p].errors :
                    \E o \in InstallOutcomes :
                        loc[p].errors[i] = "Failed to install " \o t \o ": " \o InstallError(o)}

\* C30: autoInstallTools runs no cargo command when the first check finds
\* all three tools; otherwise it runs 'cargo --version' first and, when
\* that fails, returns success = false without any installation; it
\* attempts installations only of simc and hal-simplicity and only of those
\* the first check reported missing, never of hal-simplicity-signer; its
\* success is all_installed of a fresh check made after the installations,
\* so with the signer still missing success is false even when every
\* attempted installation succeeded and errors is undefined.
C30_InstallsOnlyWhatIsMissing ==
    \A p \in Procs :
        Done(p, "autoInstallTools") =>
            LET first == loc[p].check
                cargo == CargoCalls(p)
                n == Len(calls[p])
            IN  /\ first.all_installed =>
                      /\ cargo = <<>>
                      /\ ret[p].success
                /\ ~first.all_installed =>
                      /\ Len(cargo) >= 1
                      /\ n >= 4
                      /\ \A i \in 1..3 : calls[p][i].kind = "probe"
                      /\ calls[p][4].bin = "cargo"
                      /\ ~cargo[1].ok =>
                            /\ n = 4
                            /\ ret[p].success = FALSE
                            /\ ret[p].installed_tools = <<>>
                            /\ Attempted(p) = {}
                      /\ cargo[1].ok =>
                            /\ Len(cargo) = 1 + Cardinality(Installable(first))
                            /\ Attempted(p) = Installable(first)
                            /\ "hal-simplicity-signer" \notin Attempted(p)
                            /\ Elems(ret[p].installed_tools) \subseteq Installable(first)
                            /\ n = 4 + Cardinality(Installable(first)) + 3
                            /\ \A i \in (n - 2)..n : calls[p][i].kind = "probe"
                            /\ ret[p].success =
                                  (calls[p][n - 2].ok /\ calls[p][n - 1].ok /\ calls[p][n].ok)
                            /\ ~calls[p][n].ok => ret[p].success = FALSE

C30_Witness ==
    \E p \in Procs :
        /\ Done(p, "autoInstallTools")
        /\ loc[p].check.missing_tools = <<"simc", "hal-simplicity-signer">>
        /\ Len(calls[p]) = 8
        /\ calls[p][5].bin = "cargo" /\ calls[p][5].ok
        /\ calls[p][6].ok /\ calls[p][7].ok /\ ~calls[p][8].ok
        /\ ret[p].success = FALSE
        /\ ret[p].installed_tools = <<"simc">>
        /\ ~HasField(ret[p], "errors")

====
